---- MODULE Spec2Model ----
(***************************************************************************)
(* Model of the auto layout engine of src/engine/layout.js                 *)
(* (calculateLayout, its placement profiles, the scorer and the repair     *)
(* recursion) and of src/engine/layout-templates.js (resolveTemplate).     *)
(*                                                                         *)
(* Numbers.  Sizes, gaps and paddings are whole pixels, as in the source.  *)
(* Coordinates (x, y, centers, bounds, stage size) are kept in HALF        *)
(* pixels, so that every "/ 2" of the source is exact: a coordinate v of   *)
(* the model stands for v / 2 pixels.  The radius of the unzoned hub       *)
(* profile divides by 2 * PI; the model uses PI = 355 / 113 and rounds the *)
(* radius down to a half pixel.                                            *)
(*                                                                         *)
(* Not modelled: the color and position fields of a placed component       *)
(* (position repeats x and y) and the logger calls.                        *)
(*                                                                         *)
(* Shape of the definitions.  The local variables of a JavaScript function *)
(* are the fields of a record e ("environment"); a block of the function   *)
(* is an operator that takes e and returns e with the variables the block  *)
(* assigns.  A value used many times is passed as a parameter.             *)
(***************************************************************************)
EXTENDS Integers, Sequences, FiniteSets, TLC

VARIABLES
    scenario,      \* the caller's scenario object (components, zones, connections, flow)
    layoutConfig,  \* the caller's layoutConfig object
    input,         \* the scenario and layoutConfig as they were when the caller called
    pc,            \* position of the call: "call", "place", "finalize", "done"
    arg,           \* the layoutConfig argument of the running invocation
    config,        \* the merged config of the running invocation
    placed,        \* the result object the running invocation built, with its score
    result,        \* the value calculateLayout returned to the caller
    attempts,      \* the placement attempts of this call, oldest first
    unit           \* a function run on its own: its name, arguments, locals and result

\* the variables of a call of calculateLayout
callVars == <<scenario, layoutConfig, input, pc, arg, config, placed, result, attempts>>

vars == <<callVars, unit>>

-----------------------------------------------------------------------------
(* Small helpers *)

Max(a, b) == IF a >= b THEN a ELSE b
Min(a, b) == IF a <= b THEN a ELSE b

RECURSIVE SeqMax(_, _)
\* Math.max(init, ...s)
SeqMax(s, init) == IF s = <<>> THEN init ELSE SeqMax(Tail(s), Max(init, Head(s)))

RECURSIVE SeqMin(_, _)
\* Math.min(init, ...s)
SeqMin(s, init) == IF s = <<>> THEN init ELSE SeqMin(Tail(s), Min(init, Head(s)))

\* Math.round(g * n / d) for g, n >= 0 and d > 0 (halves round up)
RoundMul(g, n, d) == (2 * g * n + d) \div (2 * d)

\* Math.abs(n)
Abs(n) == IF n < 0 THEN 0 - n ELSE n

\* Math.ceil(a / b) for a >= 0, b > 0
CeilDiv(a, b) == (a + b - 1) \div b

\* Array.prototype.sort with comparator key(a) - key(b), which is stable:
\* keys[i] is the key of s[i].
StableSortByKeys(s, keys) ==
    LET n == Len(s)
        rank(i) == Cardinality({j \in 1..n :
                        keys[j] < keys[i] \/ (keys[j] = keys[i] /\ j < i)}) + 1
    IN [k \in 1..n |-> s[CHOOSE i \in 1..n : rank(i) = k]]

\* index (from 0) of the last occurrence of id in ids, -1 when absent:
\* new Map(ids.map((id, i) => [id, i])).get(id)
MapIndex(ids, id) ==
    LET hits == {i \in 1..Len(ids) : ids[i] = id}
    IN IF hits = {} THEN -1 ELSE (CHOOSE i \in hits : \A j \in hits : j <= i) - 1

SeqToSet(s) == {s[i] : i \in 1..Len(s)}

-----------------------------------------------------------------------------
(* Dimensions and anchor semantics: layout.js lines 24-186 *)

\* DEFAULT_DIMENSIONS[type].width, after getDefaultSize's fallback to rectangle
DefaultWidth(type) ==
    CASE type = "rectangle" -> 120
      [] type = "circle"    -> 70
      [] type = "diamond"   -> 120
      [] type = "hexagon"   -> 80
      [] type = "cylinder"  -> 80
      [] type = "cloud"     -> 120
      [] type = "server"    -> 60
      [] type = "database"  -> 60
      [] type = "user"      -> 56
      [] type = "gear"      -> 60
      [] type = "container" -> 200
      [] OTHER              -> 120

DefaultHeight(type) ==
    CASE type = "rectangle" -> 60
      [] type = "circle"    -> 70
      [] type = "diamond"   -> 120
      [] type = "hexagon"   -> 80
      [] type = "cylinder"  -> 100
      [] type = "cloud"     -> 70
      [] type = "server"    -> 80
      [] type = "database"  -> 80
      [] type = "user"      -> 80
      [] type = "gear"      -> 60
      [] type = "container" -> 150
      [] OTHER              -> 60

CENTERED_TYPES == {"circle", "diamond", "hexagon", "user", "database", "gear", "server"}

\* component.type || 'rectangle'
TypeOf(c) == IF c.type = "" THEN "rectangle" ELSE c.type

\* the width and height component.size gives (lines 112-123), 0 when none
SizeFromSize(c, type) ==
    CASE c.sizeKind = "array" -> [width |-> c.sizeA, height |-> c.sizeB]
      [] c.sizeKind = "number" ->
           IF type \in {"hexagon", "diamond", "gear"}
           THEN [width |-> c.sizeA * 2, height |-> c.sizeA * 2]
           ELSE [width |-> c.sizeA, height |-> c.sizeA]
      [] OTHER -> [width |-> 0, height |-> 0]

\* lines 125-133 of getComponentSizeForComponent
SizeOfType(c, type, fromSize) ==
    IF type = "circle" /\ c.radius # 0
    THEN [width |-> c.radius * 2, height |-> c.radius * 2]
    ELSE [width |-> IF fromSize.width # 0 THEN fromSize.width
                    ELSE IF c.width # 0 THEN c.width ELSE DefaultWidth(type),
          height |-> IF fromSize.height # 0 THEN fromSize.height
                     ELSE IF c.height # 0 THEN c.height ELSE DefaultHeight(type)]

\* getComponentSizeForComponent: pixels.  sizeKind is "array" (size: [sizeA,
\* sizeB]), "number" (size: sizeA) or "none"; 0 stands for an absent number.
GetComponentSize(c) == SizeOfType(c, TypeOf(c), SizeFromSize(c, TypeOf(c)))

\* lines 143-151 of centerToAnchor
AnchorFor(centerX, centerY, type, size) ==
    IF type \in CENTERED_TYPES
    THEN [x |-> centerX, y |-> centerY]
    ELSE [x |-> centerX - size.width, y |-> centerY - size.height]

\* centerToAnchor: center in half pixels, anchor in half pixels
CenterToAnchor(centerX, centerY, c) == AnchorFor(centerX, centerY, TypeOf(c), GetComponentSize(c))

\* BoundsFor with the anchor taken as the top left corner for every type
BoundsTopLeft(c, type, size) ==
    [x |-> c.x, y |-> c.y, width |-> 2 * size.width, height |-> 2 * size.height]

\* lines 163-177 of getBoundsFromAnchor
BoundsFor(c, type, size) ==
    IF type \in CENTERED_TYPES
    THEN [x |-> c.x - size.width, y |-> c.y - size.height,
          width |-> 2 * size.width, height |-> 2 * size.height]
    ELSE [x |-> c.x, y |-> c.y, width |-> 2 * size.width, height |-> 2 * size.height]

\* getBoundsFromAnchor: all four fields in half pixels
GetBoundsFromAnchor(c) == BoundsFor(c, TypeOf(c), GetComponentSize(c))

\* the center of a bounding box (lines 182-185)
CenterOfBounds(b) == [x |-> b.x + b.width \div 2, y |-> b.y + b.height \div 2]

\* getComponentCenter (half pixels)
GetComponentCenter(c) == CenterOfBounds(GetBoundsFromAnchor(c))

\* {...comp, x: anchor.x, y: anchor.y}: a new object
WithAnchor(c, anchor) == [x |-> anchor.x, y |-> anchor.y] @@ c

\* the component placed with its center at (centerX, centerY), lines 778-787
PlaceAt(c, centerX, centerY) == WithAnchor(c, CenterToAnchor(centerX, centerY, c))

-----------------------------------------------------------------------------
(* Scorer: layout.js lines 188-250 *)

\* lambda (or gamma) strictly inside (0, 1), as num / det
Inside(num, det) == IF det > 0 THEN num > 0 /\ num < det ELSE num < 0 /\ num > det

\* lambda (or gamma) inside [0, 1], the ends included
InsideOrAtEnd(num, det) == IF det > 0 THEN num >= 0 /\ num <= det ELSE num <= 0 /\ num >= det

\* LinesIntersect with segments that meet at an end counted
LinesTouch(a1, a2, b1, b2) ==
    LET det == (a2.x - a1.x) * (b2.y - b1.y) - (a2.y - a1.y) * (b2.x - b1.x)
    IN /\ det # 0
       /\ InsideOrAtEnd((b2.y - b1.y) * (b2.x - a1.x) + (b1.x - b2.x) * (b2.y - a1.y), det)
       /\ InsideOrAtEnd((a1.y - a2.y) * (b2.x - a1.x) + (a2.x - a1.x) * (b2.y - a1.y), det)

\* linesIntersect (lines 188-194)
LinesIntersect(a1, a2, b1, b2) ==
    LET det == (a2.x - a1.x) * (b2.y - b1.y) - (a2.y - a1.y) * (b2.x - b1.x)
    IN /\ det # 0
       /\ Inside((b2.y - b1.y) * (b2.x - a1.x) + (b1.x - b2.x) * (b2.y - a1.y), det)
       /\ Inside((a1.y - a2.y) * (b2.x - a1.x) + (a2.x - a1.x) * (b2.y - a1.y), det)

\* BoxesOverlap with boxes that only touch counted
BoxesMeet(a, b) ==
    /\ Min(a.x + a.width, b.x + b.width) - Max(a.x, b.x) >= 0
    /\ Min(a.y + a.height, b.y + b.height) - Max(a.y, b.y) >= 0

\* the overlap test of two bounding boxes (lines 206-208)
BoxesOverlap(a, b) ==
    /\ Max(0, Min(a.x + a.width, b.x + b.width) - Max(a.x, b.x)) > 0
    /\ Max(0, Min(a.y + a.height, b.y + b.height) - Max(a.y, b.y)) > 0

\* An endpoint of a connection: a component id (isPoint FALSE; "" when the id
\* is missing) or an explicit point in pixels (isPoint TRUE).
EndpointId(e) == IF e.isPoint THEN "" ELSE e.id

HasComp(comps, id) == \E i \in 1..Len(comps) : comps[i].id = id

\* components.find(c => c.id === id), for an id that is present
FindComp(comps, id) ==
    comps[CHOOSE i \in 1..Len(comps) :
            comps[i].id = id /\ \A j \in 1..(i - 1) : comps[j].id # id]

\* the center of a component as the point of an endpoint
PointAt(p) == [ok |-> TRUE, x |-> p.x, y |-> p.y]

\* the point of an endpoint, as [ok, x, y] (lines 216-229)
EndpointPoint(e, comps) ==
    IF EndpointId(e) # ""
    THEN IF HasComp(comps, e.id) THEN PointAt(GetComponentCenter(FindComp(comps, e.id)))
         ELSE [ok |-> FALSE, x |-> 0, y |-> 0]
    ELSE IF e.isPoint THEN [ok |-> TRUE, x |-> 2 * e.x, y |-> 2 * e.y]
    ELSE [ok |-> FALSE, x |-> 0, y |-> 0]

\* connSegments (lines 212-233)
ConnSegments(comps, conns) ==
    SelectSeq([i \in 1..Len(conns) |->
                 [from |-> EndpointPoint(conns[i].from, comps),
                  to |-> EndpointPoint(conns[i].to, comps),
                  fromId |-> EndpointId(conns[i].from),
                  toId |-> EndpointId(conns[i].to)]],
              LAMBDA s : s.from.ok /\ s.to.ok)

\* whether the pair of segments is skipped as sharing an endpoint (lines 239-240)
SharesEndpoint(a, b) ==
    \/ a.fromId # "" /\ (a.fromId = b.fromId \/ a.fromId = b.toId)
    \/ a.toId # "" /\ (a.toId = b.fromId \/ a.toId = b.toId)

\* the pairs i < j of 1..n
Pairs(n) == {p \in (1..n) \X (1..n) : p[1] < p[2]}

\* the counts of scoreLayoutResult from the bounds and the segments
ScoreOf(bounds, segs) ==
    LET overlaps == Cardinality({p \in Pairs(Len(bounds)) : BoxesOverlap(bounds[p[1]], bounds[p[2]])})
        crossings == Cardinality({p \in Pairs(Len(segs)) :
                        /\ ~SharesEndpoint(segs[p[1]], segs[p[2]])
                        /\ LinesIntersect(segs[p[1]].from, segs[p[1]].to,
                                          segs[p[2]].from, segs[p[2]].to)})
    IN [overlaps |-> overlaps, crossings |-> crossings, total |-> overlaps * 3 + crossings]

\* scoreLayoutResult
ScoreLayoutResult(comps, conns) ==
    ScoreOf([i \in 1..Len(comps) |-> GetBoundsFromAnchor(comps[i])], ConnSegments(comps, conns))

-----------------------------------------------------------------------------
(* Configuration: layout.js lines 62-86 and 309-320, layout-templates.js *)

\* a key the caller's layoutConfig does not carry
Absent == 0 - 1

viewBoxWidth     == 1200
viewBoxHeight    == 700
padding          == 60
zoneGap          == 50
zonePadding      == 50
zoneLabelHeight  == 30
minComponentGap  == 16
minColumnGap     == 40
minRowGap        == 50
maxRepairPasses  == 2
startX           == 60
startY           == 80

\* minimum zone width and height (Math.max(180, ...), Math.max(200, ...))
MinZoneWidth  == 180
MinZoneHeight == 200

KnownProfiles == {"pipeline", "hub", "fanout", "tiered", "swimlane"}

\* LAYOUT_TEMPLATES[key] || LAYOUT_TEMPLATES.pipeline
TemplateOf(key) ==
    CASE key = "hub"      -> [columnGap |-> 70,  rowGap |-> 90,  componentGap |-> 24]
      [] key = "fanout"   -> [columnGap |-> 80,  rowGap |-> 110, componentGap |-> 24]
      [] key = "tiered"   -> [columnGap |-> 100, rowGap |-> 80,  componentGap |-> 26]
      [] key = "swimlane" -> [columnGap |-> 110, rowGap |-> 70,  componentGap |-> 24]
      [] OTHER            -> [columnGap |-> 90,  rowGap |-> 120, componentGap |-> 28]

\* resolveTemplate: key = layoutConfig.template || layoutConfig.profile || 'pipeline'
ResolveTemplate(lc) ==
    TemplateOf(IF lc.template # "" THEN lc.template
               ELSE IF lc.profile # "" THEN lc.profile ELSE "pipeline")

\* a layoutConfig that carries no key at all: calculateLayout(scenario, {})
EmptyLayoutConfig ==
    [profile |-> "", template |-> "", direction |-> "",
     viewBoxWidth |-> Absent, viewBoxHeight |-> Absent, padding |-> Absent,
     zoneGap |-> Absent, zonePadding |-> Absent, zoneLabelHeight |-> Absent,
     componentGap |-> Absent, columnGap |-> Absent, rowGap |-> Absent,
     minComponentGap |-> Absent, minColumnGap |-> Absent, minRowGap |-> Absent,
     maxRepairPasses |-> Absent, growthNum |-> Absent, growthDen |-> Absent,
     startX |-> Absent, startY |-> Absent,
     hints |-> [primaryPath |-> <<>>, grouping |-> "", compact |-> TRUE],
     repairPass |-> 0]

Pick(v, default) == IF v = Absent THEN default ELSE v

\* {...DEFAULT_CONFIG, ...templateDefaults, ...layoutConfig, hints: {...}}
MergeWith(lc, t) ==
    [profile |-> IF lc.profile = "" THEN "pipeline" ELSE lc.profile,
     template |-> lc.template,
     direction |-> IF lc.direction = "" THEN "LR" ELSE lc.direction,
     viewBoxWidth |-> Pick(lc.viewBoxWidth, viewBoxWidth),
     viewBoxHeight |-> Pick(lc.viewBoxHeight, viewBoxHeight),
     padding |-> Pick(lc.padding, padding),
     zoneGap |-> Pick(lc.zoneGap, zoneGap),
     zonePadding |-> Pick(lc.zonePadding, zonePadding),
     zoneLabelHeight |-> Pick(lc.zoneLabelHeight, zoneLabelHeight),
     componentGap |-> Pick(lc.componentGap, t.componentGap),
     columnGap |-> Pick(lc.columnGap, t.columnGap),
     rowGap |-> Pick(lc.rowGap, t.rowGap),
     minComponentGap |-> Pick(lc.minComponentGap, minComponentGap),
     minColumnGap |-> Pick(lc.minColumnGap, minColumnGap),
     minRowGap |-> Pick(lc.minRowGap, minRowGap),
     maxRepairPasses |-> Pick(lc.maxRepairPasses, maxRepairPasses),
     growthNum |-> Pick(lc.growthNum, 5),
     growthDen |-> Pick(lc.growthDen, 4),
     startX |-> Pick(lc.startX, startX),
     startY |-> Pick(lc.startY, startY),
     hints |-> lc.hints,
     repairPass |-> lc.repairPass]

\* the merged config of one invocation (lines 309-320).  repairGrowth is the
\* fraction growthNum / growthDen (default 1.25 = 5 / 4); hints.compact TRUE
\* stands for "not false"; repairPass is config._repairPass || 0.
MergeConfig(lc) == MergeWith(lc, ResolveTemplate(lc))

\* a gap grown by repairGrowth (lines 344-346)
Grown(gap, cfg) == RoundMul(gap, cfg.growthNum, cfg.growthDen)

\* nextConfig of finalizeLayout (lines 342-349)
NextConfig(cfg) ==
    [cfg EXCEPT !.columnGap = Grown(cfg.columnGap, cfg),
                !.rowGap = Grown(cfg.rowGap, cfg),
                !.componentGap = Grown(cfg.componentGap, cfg),
                !.hints = [cfg.hints EXCEPT !.compact = FALSE],
                !.repairPass = cfg.repairPass + 1]

\* IsPoor without the crossings operand
IsPoorOverlapsOnly(score) == score.overlaps > 0

\* whether the score is below the quality threshold (line 341, left operand)
IsPoor(score) == score.overlaps > 0 \/ score.crossings > 2

\* NeedsRepair with repairPass <= maxRepairPasses
NeedsRepairOnceMore(score, cfg) == IsPoor(score) /\ cfg.repairPass <= cfg.maxRepairPasses

\* whether finalizeLayout runs the placement again (line 341)
NeedsRepair(score, cfg) == IsPoor(score) /\ cfg.repairPass < cfg.maxRepairPasses

\* the gaps of the config, uncompacted (baseGaps)
BaseGaps(cfg) ==
    [columnGap |-> cfg.columnGap, rowGap |-> cfg.rowGap, componentGap |-> cfg.componentGap]

\* Math.max(1, extent - padding * 2), in half pixels (lines 256-263)
Available(extent, cfg) == Max(2, 2 * (extent - cfg.padding * 2))

\* needed > 0 ? Math.min(1, available / needed) : 1, as a fraction (lines 265-266)
ScaleFor(available, needed) ==
    IF needed > 0 /\ available < needed THEN [num |-> available, den |-> needed]
    ELSE [num |-> 1, den |-> 1]

\* Math.min of two fractions (line 267)
MinScale(p, s) == IF p.num * s.den <= s.num * p.den THEN p ELSE s

\* ScaledGaps without the minimums
ScaledGapsUnclamped(cfg, scale) ==
    [columnGap |-> RoundMul(cfg.columnGap, scale.num, scale.den),
     rowGap |-> RoundMul(cfg.rowGap, scale.num, scale.den),
     componentGap |-> RoundMul(cfg.componentGap, scale.num, scale.den)]

\* lines 269-273
ScaledGaps(cfg, scale) ==
    [columnGap |-> Max(cfg.minColumnGap, RoundMul(cfg.columnGap, scale.num, scale.den)),
     rowGap |-> Max(cfg.minRowGap, RoundMul(cfg.rowGap, scale.num, scale.den)),
     componentGap |-> Max(cfg.minComponentGap, RoundMul(cfg.componentGap, scale.num, scale.den))]

\* getCompactedGaps; neededPrimary and neededSecondary in half pixels
GetCompactedGaps(cfg, neededPrimary, neededSecondary, isTB) ==
    ScaledGaps(cfg,
        MinScale(ScaleFor(Available(IF isTB THEN cfg.viewBoxHeight ELSE cfg.viewBoxWidth, cfg),
                          neededPrimary),
                 ScaleFor(Available(IF isTB THEN cfg.viewBoxWidth ELSE cfg.viewBoxHeight, cfg),
                          neededSecondary)))

\* config.hints.compact !== false ? getCompactedGaps(...) : baseGaps
GapsFor(cfg, neededPrimary, neededSecondary, isTB) ==
    IF cfg.hints.compact
    THEN GetCompactedGaps(cfg, neededPrimary, neededSecondary, isTB)
    ELSE BaseGaps(cfg)

-----------------------------------------------------------------------------
(* The locals of calculateLayout: layout.js lines 319-433 *)

\* scenario.components || []
Components(sc) == IF sc.hasComponents THEN sc.components ELSE <<>>

\* components.map(c => c.id)
CompIds(comps) == [i \in 1..Len(comps) |-> comps[i].id]

\* lines 357-359: scenario.flow when it is a non-empty array, else the ids
FlowOrder(sc) ==
    IF sc.flow # <<>> THEN sc.flow
    ELSE SelectSeq(CompIds(Components(sc)), LAMBDA id : id # "")

\* lines 366-369
ConnectionPairs(sc) ==
    [i \in 1..Len(sc.connections) |->
        [from |-> EndpointId(sc.connections[i].from), to |-> EndpointId(sc.connections[i].to)]]

\* lines 319-322, 357-359, 366-369, 379
Locals(sc, cfg) ==
    [scenario |-> sc, config |-> cfg, isTB |-> cfg.direction = "TB",
     components |-> Components(sc), zones |-> sc.zones,
     flowOrder |-> FlowOrder(sc), connectionPairs |-> ConnectionPairs(sc),
     grouping |-> IF cfg.hints.grouping = "" THEN "zone" ELSE cfg.hints.grouping,
     baseGaps |-> BaseGaps(cfg)]

\* lines 360-364 and 431: primaryPath and useZones
PathStep(e) ==
    [primaryPath |->
        IF e.config.hints.primaryPath # <<>>
        THEN SelectSeq(e.config.hints.primaryPath,
                       LAMBDA id : MapIndex(e.flowOrder, id) >= 0 \/ HasComp(e.components, id))
        ELSE e.flowOrder,
     useZones |-> e.grouping = "zone" /\ Len(e.zones) > 0] @@ e

\* whether connection pair p gives its target a parent (line 372)
GivesParent(e, p) ==
    /\ p.from # "" /\ p.to # ""
    /\ p.from \in SeqToSet(e.primaryPath)
    /\ p.to \notin SeqToSet(e.primaryPath)

\* parentMap.get(id), "" when the map has no entry (lines 370-377)
ParentOf(e, id) ==
    LET hits == {i \in 1..Len(e.connectionPairs) :
                    GivesParent(e, e.connectionPairs[i]) /\ e.connectionPairs[i].to = id}
    IN IF hits = {} THEN ""
       ELSE e.connectionPairs[CHOOSE i \in hits : \A j \in hits : i <= j].from

\* the indices of the components that are the first of their type (lines 401-406)
FirstOfType(comps) ==
    SelectSeq([i \in 1..Len(comps) |-> i],
              LAMBDA i : \A j \in 1..(i - 1) : TypeOf(comps[j]) # TypeOf(comps[i]))

NoZone == [id |-> ""]

\* the groups by type, in the order the types first appear (lines 400-414)
GroupsOfTypes(comps, firsts) ==
    [k \in 1..Len(firsts) |->
        [hasZone |-> FALSE, zone |-> NoZone,
         components |-> SelectSeq(comps, LAMBDA c : TypeOf(c) = TypeOf(comps[firsts[k]]))]]

\* the groups by zone, then the unzoned components if any (lines 384-399)
GroupsOfZones(comps, zones, unzoned) ==
    [k \in 1..Len(zones) |->
        [hasZone |-> TRUE, zone |-> zones[k],
         components |-> SelectSeq(comps, LAMBDA c : c.zone = zones[k].id)]]
    \o (IF unzoned # <<>>
        THEN <<[hasZone |-> FALSE, zone |-> NoZone, components |-> unzoned]>>
        ELSE <<>>)

\* lines 370-421 and 432-433: parentMap, groups, groupPadding, groupLabelHeight
GroupStep(e) ==
    [parentMap |-> [id \in SeqToSet(CompIds(e.components)) |-> ParentOf(e, id)],
     groups |->
        IF e.useZones
        THEN GroupsOfZones(e.components, e.zones, SelectSeq(e.components, LAMBDA c : c.zone = ""))
        ELSE IF e.grouping = "type"
        THEN GroupsOfTypes(e.components, FirstOfType(e.components))
        ELSE <<[hasZone |-> FALSE, zone |-> NoZone, components |-> e.components]>>,
     groupPadding |-> IF e.useZones THEN e.config.zonePadding ELSE 0,
     groupLabelHeight |-> IF e.useZones THEN e.config.zoneLabelHeight ELSE 0] @@ e

\* every local of calculateLayout that the placement reads
Env(sc, cfg) == GroupStep(PathStep(Locals(sc, cfg)))

\* getOrderIndex (lines 423-427)
GetOrderIndex(e, c) ==
    IF MapIndex(e.flowOrder, c.id) >= 0 THEN MapIndex(e.flowOrder, c.id)
    ELSE MapIndex(CompIds(e.components), c.id)

\* [...groupComps].sort((a, b) => getOrderIndex(a) - getOrderIndex(b))
OrderedComps(e, groupComps) ==
    StableSortByKeys(groupComps, [i \in 1..Len(groupComps) |-> GetOrderIndex(e, groupComps[i])])

\* the largest width among comps, 0 for none (lines 685-691)
MaxWidthOf(comps) == SeqMax([i \in 1..Len(comps) |-> GetComponentSize(comps[i]).width], 0)

MaxHeightOf(comps) == SeqMax([i \in 1..Len(comps) |-> GetComponentSize(comps[i]).height], 0)

\* the ends of the pairs in the order a degree map meets them:
\* from, to, from, to, ...
BothEnds(pairs) ==
    [k \in 1..(2 * Len(pairs)) |->
        IF k % 2 = 1 THEN pairs[(k + 1) \div 2].from ELSE pairs[k \div 2].to]

FromEnds(pairs) == [k \in 1..Len(pairs) |-> pairs[k].from]

Count(occ, id) == Cardinality({i \in 1..Len(occ) : occ[i] = id})

\* [...counts.entries()].sort((a, b) => b[1] - a[1])[0]?.[0], "" for none:
\* the most frequent id of occ, the one met first among equals
TopId(occ) ==
    IF occ = <<>> THEN ""
    ELSE occ[CHOOSE i \in 1..Len(occ) :
                /\ \A j \in 1..Len(occ) : Count(occ, occ[j]) <= Count(occ, occ[i])
                /\ \A j \in 1..(i - 1) : Count(occ, occ[j]) < Count(occ, occ[i])]

\* the pairs with both ends named
NamedPairs(pairs) == SelectSeq(pairs, LAMBDA p : p.from # "" /\ p.to # "")

\* primaryPath.find(id => comps.some(c => c.id === id)), "" for none
FirstOnPath(path, comps) ==
    LET hits == SelectSeq(path, LAMBDA id : HasComp(comps, id))
    IN IF hits = <<>> THEN "" ELSE hits[1]

\* a || b on ids
OrElse(a, b) == IF a # "" THEN a ELSE b

RECURSIVE Flatten(_)
\* the concatenation of the sequences of ss
Flatten(ss) == IF ss = <<>> THEN <<>> ELSE Head(ss) \o Flatten(Tail(ss))

RECURSIVE SumSeq(_)
SumSeq(s) == IF s = <<>> THEN 0 ELSE Head(s) + SumSeq(Tail(s))

\* ZigZagRow with the first branch above: -1, 1, -2, 2, ...
ZigZagRowUp(count) == IF count % 2 = 0 THEN 0 - (count \div 2 + 1) ELSE count \div 2 + 1

\* row = count % 2 === 0 ? step : -step with step = floor(count / 2) + 1
ZigZagRow(count) == IF count % 2 = 0 THEN count \div 2 + 1 ELSE 0 - (count \div 2 + 1)

-----------------------------------------------------------------------------
(* The group loop: layout.js lines 679-1035.  Positions and extents on the  *)
(* canvas (zoneX, contentWidth, zoneWidth, contentStartX, currentPrimary,   *)
(* radius ...) are in half pixels; sizes of components, cells and gaps are  *)
(* in pixels.                                                               *)

\* lines 680-698 and 740-741: the locals of one turn of the loop
GroupLocals(e, group, currentPrimary) ==
    [group |-> group, currentPrimary |-> currentPrimary,
     orderedComps |-> OrderedComps(e, group.components),
     maxWidth |-> MaxWidthOf(group.components),
     maxHeight |-> MaxHeightOf(group.components),
     maxPrimarySize |-> IF e.isTB THEN MaxHeightOf(group.components)
                        ELSE MaxWidthOf(group.components),
     maxSecondarySize |-> IF e.isTB THEN MaxWidthOf(group.components)
                          ELSE MaxHeightOf(group.components),
     zoneX |-> IF e.isTB THEN 2 * e.config.startX ELSE currentPrimary,
     zoneY |-> IF e.isTB THEN currentPrimary ELSE 2 * e.config.startY] @@ e

\* zoneWidth and zoneHeight (lines 758-759)
ZoneBox(g) ==
    [zoneWidth |-> IF g.useZones
                   THEN Max(2 * MinZoneWidth, g.contentWidth + 4 * g.groupPadding)
                   ELSE g.contentWidth,
     zoneHeight |-> IF g.useZones
                    THEN Max(2 * MinZoneHeight,
                             g.contentHeight + 4 * g.groupPadding + 2 * g.groupLabelHeight)
                    ELSE g.contentHeight] @@ g

\* ContentStart without the half cell that leads to the first center
ContentStartAtEdge(g) ==
    [contentStartX |-> g.zoneX + (g.zoneWidth - g.contentWidth) \div 2,
     contentStartY |-> g.zoneY + 2 * g.groupLabelHeight
                       + (g.zoneHeight - 2 * g.groupLabelHeight - g.contentHeight) \div 2] @@ g

\* contentStartX and contentStartY (lines 764-765)
ContentStart(g) ==
    [contentStartX |-> g.zoneX + (g.zoneWidth - g.contentWidth) \div 2
                       + (IF g.isTB THEN g.cellSecondary ELSE g.cellPrimary),
     contentStartY |-> g.zoneY + 2 * g.groupLabelHeight
                       + (g.zoneHeight - 2 * g.groupLabelHeight - g.contentHeight) \div 2
                       + (IF g.isTB THEN g.cellPrimary ELSE g.cellSecondary)] @@ g

(* pipeline: lines 708-788 *)

\* rowById of the i-th ordered component (lines 713-732): 0 on the primary
\* path; a branch counts the earlier branches of its parent, a parentless
\* one the earlier parentless
PipelineRow(g, i) ==
    IF g.orderedComps[i].id \in SeqToSet(g.primaryPath) THEN 0
    ELSE ZigZagRow(Cardinality({j \in 1..(i - 1) :
            /\ g.orderedComps[j].id \notin SeqToSet(g.primaryPath)
            /\ g.parentMap[g.orderedComps[j].id] = g.parentMap[g.orderedComps[i].id]}))

\* lines 709-738
PipelineRows(g) ==
    LET rows == [i \in 1..Len(g.orderedComps) |-> PipelineRow(g, i)]
    IN [rowById |-> rows, minRow |-> SeqMin(rows, rows[1]),
        rowCount |-> SeqMax(rows, rows[1]) - SeqMin(rows, rows[1]) + 1,
        cols |-> Len(g.orderedComps)] @@ g

\* lines 743-756
PipelineSizes(g) ==
    LET gaps == GapsFor(g.config,
                        2 * g.cols * (g.maxPrimarySize + g.baseGaps.columnGap * 2),
                        2 * g.rowCount * (g.maxSecondarySize + g.baseGaps.rowGap * 2),
                        g.isTB)
        cellPrimary == g.maxPrimarySize + gaps.columnGap * 2
        cellSecondary == g.maxSecondarySize + gaps.rowGap * 2
    IN [gaps |-> gaps, cellPrimary |-> cellPrimary, cellSecondary |-> cellSecondary,
        contentWidth |-> 2 * (IF g.isTB THEN g.rowCount * cellSecondary ELSE g.cols * cellPrimary),
        contentHeight |-> 2 * (IF g.isTB THEN g.cols * cellPrimary ELSE g.rowCount * cellSecondary)] @@ g

\* lines 767-787
PipelinePut(g) ==
    [updated |-> [i \in 1..Len(g.orderedComps) |->
        PlaceAt(g.orderedComps[i],
                IF g.isTB THEN g.contentStartX + 2 * (g.rowById[i] - g.minRow) * g.cellSecondary
                ELSE g.contentStartX + 2 * (i - 1) * g.cellPrimary,
                IF g.isTB THEN g.contentStartY + 2 * (i - 1) * g.cellPrimary
                ELSE g.contentStartY + 2 * (g.rowById[i] - g.minRow) * g.cellSecondary)]] @@ g

PlacePipeline(g) == PipelinePut(ContentStart(ZoneBox(PipelineSizes(PipelineRows(g)))))

(* tiered: lines 789-832 *)

\* lines 790-804
TieredSizes(g) ==
    LET cols == Len(g.orderedComps)
        gaps == GapsFor(g.config,
                        2 * cols * (g.maxPrimarySize + g.baseGaps.columnGap * 2),
                        2 * (g.maxSecondarySize + g.baseGaps.rowGap * 2),
                        g.isTB)
        cellPrimary == g.maxPrimarySize + gaps.columnGap * 2
        cellSecondary == g.maxSecondarySize + gaps.rowGap * 2
    IN [gaps |-> gaps, cellPrimary |-> cellPrimary, cellSecondary |-> cellSecondary,
        contentWidth |-> 2 * (IF g.isTB THEN cellSecondary ELSE cols * cellPrimary),
        contentHeight |-> 2 * (IF g.isTB THEN cols * cellPrimary ELSE cellSecondary)] @@ g

\* lines 815-831
TieredPut(g) ==
    [updated |-> [i \in 1..Len(g.orderedComps) |->
        PlaceAt(g.orderedComps[i],
                IF g.isTB THEN g.contentStartX ELSE g.contentStartX + 2 * (i - 1) * g.cellPrimary,
                IF g.isTB THEN g.contentStartY + 2 * (i - 1) * g.cellPrimary
                ELSE g.contentStartY)]] @@ g

PlaceTiered(g) == TieredPut(ContentStart(ZoneBox(TieredSizes(g))))

(* hub: lines 833-909 *)

\* x / (2 * PI) for x in pixels, in half pixels rounded down, with PI = 355 / 113
OverTwoPi(x) == (x * 113) \div 355

\* 1000 * cos of the multiples of 6 degrees, rounded
CosTable ==
    <<1000, 995, 978, 951, 914, 866, 809, 743, 669, 588,
      500, 407, 309, 208, 105, 0, 0 - 105, 0 - 208, 0 - 309, 0 - 407,
      0 - 500, 0 - 588, 0 - 669, 0 - 743, 0 - 809, 0 - 866, 0 - 914, 0 - 951, 0 - 978, 0 - 995,
      0 - 1000, 0 - 995, 0 - 978, 0 - 951, 0 - 914, 0 - 866, 0 - 809, 0 - 743, 0 - 669, 0 - 588,
      0 - 500, 0 - 407, 0 - 309, 0 - 208, 0 - 105, 0, 105, 208, 309, 407,
      500, 588, 669, 743, 809, 866, 914, 951, 978, 995>>

\* 1000 * Math.cos, 1000 * Math.sin of an angle in degrees (a multiple of 6)
Cos1000(deg) == CosTable[(deg % 360) \div 6 + 1]
Sin1000(deg) == CosTable[((deg + 270) % 360) \div 6 + 1]

\* Math.cos(angle) * radius, to the nearest half pixel
TimesRadius(c1000, radius) == (c1000 * radius + 500) \div 1000

\* lines 834-850: the hub is the first id of the primary path in the group,
\* else the id of highest degree among the pairs inside the group, else the
\* first ordered component
HubId(g) ==
    OrElse(FirstOnPath(g.primaryPath, g.group.components),
           OrElse(TopId(BothEnds(SelectSeq(NamedPairs(g.connectionPairs),
                        LAMBDA p : /\ HasComp(g.group.components, p.from)
                                   /\ HasComp(g.group.components, p.to)))),
                  g.orderedComps[1].id))

\* orderedComps.find(c => c.id === id) || orderedComps[0] (lines 852, 918)
FindOrFirst(g, id) ==
    IF HasComp(g.orderedComps, id) THEN FindComp(g.orderedComps, id) ELSE g.orderedComps[1]

\* lines 852-855
HubPick(g) ==
    LET hubComp == FindOrFirst(g, HubId(g))
    IN [hubComp |-> hubComp,
        spokes |-> SelectSeq(g.orderedComps, LAMBDA c : c.id # hubComp.id),
        count |-> Len(SelectSeq(g.orderedComps, LAMBDA c : c.id # hubComp.id)),
        maxSize |-> Max(g.maxWidth, g.maxHeight)] @@ g

\* lines 856-873; the radius in half pixels
HubSizes(g) ==
    LET first == IF g.count > 1
                 THEN Max(2 * Max(120, g.maxSize + g.baseGaps.rowGap),
                          OverTwoPi(g.count * (g.maxSize + g.baseGaps.columnGap)))
                 ELSE 2 * Max(120, g.maxSize + g.baseGaps.rowGap)
        gaps == GapsFor(g.config, first * 2 + 2 * g.maxSize, first * 2 + 2 * g.maxSize, g.isTB)
        radius == Max(200, IF g.count > 1
                           THEN OverTwoPi(g.count * (g.maxSize + gaps.columnGap))
                           ELSE 2 * (g.maxSize + gaps.rowGap))
    IN [gaps |-> gaps, radius |-> radius,
        contentWidth |-> radius * 2 + 2 * g.maxSize,
        contentHeight |-> radius * 2 + 2 * g.maxSize] @@ g

\* lines 881-882 and 894-895; angles in degrees
HubCenter(g) ==
    [centerX |-> g.zoneX + g.zoneWidth \div 2,
     centerY |-> g.zoneY + 2 * g.groupLabelHeight + (g.zoneHeight - 2 * g.groupLabelHeight) \div 2,
     startAngle |-> IF g.isTB THEN 180 ELSE 270,
     angleStep |-> IF g.count > 0 THEN 360 \div g.count ELSE 0] @@ g

\* lines 884-908
HubPut(g) ==
    [updated |-> <<PlaceAt(g.hubComp, g.centerX, g.centerY)>> \o
        [i \in 1..g.count |->
            PlaceAt(g.spokes[i],
                    g.centerX + TimesRadius(Cos1000(g.startAngle + (i - 1) * g.angleStep), g.radius),
                    g.centerY + TimesRadius(Sin1000(g.startAngle + (i - 1) * g.angleStep), g.radius))]] @@ g

PlaceHub(g) == HubPut(HubCenter(ZoneBox(HubSizes(HubPick(g)))))

(* fanout: lines 910-980 *)

\* lines 911-919: the source is the head of the primary path, else the id
\* of highest out-degree, else the first ordered component
FanoutPick(g) ==
    LET sourceComp == FindOrFirst(g, IF g.primaryPath # <<>> THEN g.primaryPath[1]
                                     ELSE TopId(FromEnds(NamedPairs(g.connectionPairs))))
    IN [sourceComp |-> sourceComp,
        targets |-> SelectSeq(g.orderedComps, LAMBDA c : c.id # sourceComp.id)] @@ g

\* lines 921-934
FanoutSizes(g) ==
    LET targetCount == Max(1, Len(g.targets))
        gaps == GapsFor(g.config,
                        2 * 2 * (g.maxPrimarySize + g.baseGaps.columnGap * 2),
                        2 * targetCount * (g.maxSecondarySize + g.baseGaps.rowGap * 2),
                        g.isTB)
        cellPrimary == g.maxPrimarySize + gaps.columnGap * 2
        cellSecondary == g.maxSecondarySize + gaps.rowGap * 2
    IN [gaps |-> gaps, cellPrimary |-> cellPrimary, cellSecondary |-> cellSecondary,
        contentWidth |-> 2 * (IF g.isTB THEN targetCount * cellSecondary ELSE cellPrimary * 2),
        contentHeight |-> 2 * (IF g.isTB THEN cellPrimary * 2 ELSE targetCount * cellSecondary)] @@ g

\* lines 945-948 and 960-961
FanoutCenters(g) ==
    [targetCenterX |-> IF g.isTB THEN g.contentStartX ELSE g.contentStartX + 2 * g.cellPrimary,
     targetCenterY |-> IF g.isTB THEN g.contentStartY + 2 * g.cellPrimary
                       ELSE g.contentStartY + g.contentHeight \div 2,
     sourceCenterX |-> IF g.isTB THEN g.contentStartX + g.contentWidth \div 2 ELSE g.contentStartX,
     sourceCenterY |-> IF g.isTB THEN g.contentStartY
                       ELSE g.contentStartY + g.contentHeight \div 2,
     firstRowOffset |-> IF Len(g.targets) > 0 THEN 0 - (Len(g.targets) \div 2) ELSE 0] @@ g

\* lines 950-979
FanoutPut(g) ==
    [updated |-> <<PlaceAt(g.sourceComp, g.sourceCenterX, g.sourceCenterY)>> \o
        [i \in 1..Len(g.targets) |->
            PlaceAt(g.targets[i],
                    IF g.isTB
                    THEN g.targetCenterX + 2 * (g.firstRowOffset + i - 1) * g.cellSecondary
                    ELSE g.targetCenterX,
                    IF g.isTB THEN g.targetCenterY
                    ELSE g.targetCenterY + 2 * (g.firstRowOffset + i - 1) * g.cellSecondary)]] @@ g

PlaceFanout(g) == FanoutPut(FanoutCenters(ContentStart(ZoneBox(FanoutSizes(FanoutPick(g))))))

(* the fallback grid: lines 981-1022 *)

\* lines 982-994; contentWidth and contentHeight are zoneContentWidth and
\* zoneContentHeight
GridSizes(g) ==
    LET cols == IF Len(g.orderedComps) >= 3 THEN 2 ELSE 1
        rows == CeilDiv(Len(g.orderedComps), cols)
        gaps == GapsFor(g.config,
                        2 * (IF g.isTB THEN rows ELSE cols) * (g.maxWidth + g.baseGaps.componentGap * 2),
                        2 * (IF g.isTB THEN cols ELSE rows) * (g.maxHeight + g.baseGaps.componentGap * 2),
                        g.isTB)
    IN [cols |-> cols, gaps |-> gaps,
        cellWidth |-> g.maxWidth + gaps.componentGap * 2,
        cellHeight |-> g.maxHeight + gaps.componentGap * 2,
        contentWidth |-> 2 * cols * (g.maxWidth + gaps.componentGap * 2),
        contentHeight |-> 2 * rows * (g.maxHeight + gaps.componentGap * 2)] @@ g

\* lines 1002-1003
GridStart(g) ==
    [contentStartX |-> g.zoneX + (g.zoneWidth - g.contentWidth) \div 2 + g.cellWidth,
     contentStartY |-> g.zoneY + 2 * g.groupLabelHeight
                       + (g.zoneHeight - 2 * g.groupLabelHeight - g.contentHeight) \div 2
                       + g.cellHeight] @@ g

\* lines 1005-1021
GridPut(g) ==
    [updated |-> [i \in 1..Len(g.orderedComps) |->
        PlaceAt(g.orderedComps[i],
                g.contentStartX + 2 * ((i - 1) % g.cols) * g.cellWidth,
                g.contentStartY + 2 * ((i - 1) \div g.cols) * g.cellHeight)]] @@ g

PlaceGrid(g) == GridPut(GridStart(ZoneBox(GridSizes(g))))

\* the branch of the profile (lines 708, 789, 833, 910, 981)
PlaceGroup(g) ==
    CASE g.config.profile = "pipeline" -> PlacePipeline(g)
      [] g.config.profile = "tiered"   -> PlaceTiered(g)
      [] g.config.profile = "hub"      -> PlaceHub(g)
      [] g.config.profile = "fanout"   -> PlaceFanout(g)
      [] OTHER                         -> PlaceGrid(g)

\* {...zone, x, y, width, height}: half pixels
ZoneAt(zone, x, y, width, height) ==
    [x |-> x, y |-> y, width |-> width, height |-> height] @@ zone

\* what the loop has pushed before the first group: updatedComponents,
\* updatedZones, the gaps each group used, and currentPrimary (line 429)
NothingPlaced(e) ==
    [components |-> <<>>, zones |-> <<>>, gaps |-> <<>>,
     currentPrimary |-> 2 * (IF e.isTB THEN e.config.startY ELSE e.config.startX)]

\* Pushed with currentPrimary advanced by the gap alone
PushedInPlace(acc, g) ==
    [components |-> acc.components \o g.updated,
     zones |-> IF g.useZones /\ g.group.hasZone
               THEN Append(acc.zones, ZoneAt(g.group.zone, g.zoneX, g.zoneY, g.zoneWidth, g.zoneHeight))
               ELSE acc.zones,
     gaps |-> Append(acc.gaps, g.gaps),
     currentPrimary |-> g.currentPrimary + 2 * g.config.zoneGap]

\* lines 1024-1034: the pushes and the advance of currentPrimary after a group
Pushed(acc, g) ==
    [components |-> acc.components \o g.updated,
     zones |-> IF g.useZones /\ g.group.hasZone
               THEN Append(acc.zones, ZoneAt(g.group.zone, g.zoneX, g.zoneY, g.zoneWidth, g.zoneHeight))
               ELSE acc.zones,
     gaps |-> Append(acc.gaps, g.gaps),
     currentPrimary |-> g.currentPrimary + (IF g.isTB THEN g.zoneHeight ELSE g.zoneWidth)
                        + 2 * g.config.zoneGap]

RECURSIVE PlaceGroups(_, _, _)
\* groups.forEach from the k-th group on (lines 679-1035)
PlaceGroups(e, k, acc) ==
    IF k > Len(e.groups) THEN acc
    ELSE IF e.groups[k].components = <<>> THEN PlaceGroups(e, k + 1, acc)
    ELSE PlaceGroups(e, k + 1,
            Pushed(acc, PlaceGroup(GroupLocals(e, e.groups[k], acc.currentPrimary))))

-----------------------------------------------------------------------------
(* swimlane with zones: layout.js lines 435-534 *)

\* lines 442-470: every lane has the same zoneWidth and zoneHeight (half pixels)
SwimlaneSizes(e) ==
    LET totalCols == SeqMax([i \in 1..Len(e.flowOrder) |->
                                MapIndex(e.flowOrder, e.flowOrder[i])], 0) + 1
        maxWidth == MaxWidthOf(e.components)
        maxHeight == MaxHeightOf(e.components)
        gaps == GapsFor(e.config,
                        2 * totalCols * (maxWidth + e.baseGaps.columnGap * 2),
                        2 * Len(e.zones) * (maxHeight + e.baseGaps.rowGap * 2),
                        e.isTB)
        cellPrimary == (IF e.isTB THEN maxHeight ELSE maxWidth) + gaps.columnGap * 2
        cellSecondary == (IF e.isTB THEN maxWidth ELSE maxHeight) + gaps.rowGap * 2
    IN [gaps |-> gaps, cellPrimary |-> cellPrimary,
        lanePrimary |-> totalCols * cellPrimary, laneSecondary |-> cellSecondary,
        zoneWidth |-> 2 * Max(MinZoneWidth,
                          (IF e.isTB THEN cellSecondary ELSE totalCols * cellPrimary)
                          + e.config.zonePadding * 2),
        zoneHeight |-> 2 * Max(MinZoneHeight,
                           (IF e.isTB THEN totalCols * cellPrimary ELSE cellSecondary)
                           + e.config.zonePadding * 2 + e.config.zoneLabelHeight)] @@ e

\* zoneX, zoneY, contentStartX and contentStartY of each zone (lines 463,
\* 472-473, 484-485, 508); current grows by the same extent after each lane
SwimlaneZones(e) ==
    LET current(k) == 2 * (IF e.isTB THEN e.config.startY ELSE e.config.startX)
                      + (k - 1) * ((IF e.isTB THEN e.zoneHeight ELSE e.zoneWidth)
                                   + 2 * e.config.zoneGap)
    IN [zoneX |-> [k \in 1..Len(e.zones) |-> IF e.isTB THEN 2 * e.config.startX ELSE current(k)],
        zoneY |-> [k \in 1..Len(e.zones) |-> IF e.isTB THEN current(k) ELSE 2 * e.config.startY],
        contentStartX |-> [k \in 1..Len(e.zones) |->
            (IF e.isTB THEN 2 * e.config.startX ELSE current(k)) + 2 * e.config.zonePadding
            + (IF e.isTB THEN e.laneSecondary ELSE e.cellPrimary)],
        contentStartY |-> [k \in 1..Len(e.zones) |->
            (IF e.isTB THEN current(k) ELSE 2 * e.config.startY)
            + 2 * e.config.zoneLabelHeight + 2 * e.config.zonePadding
            + (IF e.isTB THEN e.cellPrimary ELSE e.laneSecondary)]] @@ e

\* the component pushed for comp of the k-th zone (lines 488-504);
\* col is flowIndex.get(comp.id) ?? 0
SwimlaneComp(e, k, comp, col) ==
    PlaceAt(comp,
            IF e.isTB THEN e.contentStartX[k] ELSE e.contentStartX[k] + 2 * col * e.cellPrimary,
            IF e.isTB THEN e.contentStartY[k] + 2 * col * e.cellPrimary ELSE e.contentStartY[k])

\* the components pushed for the k-th zone (lines 487-505)
SwimlaneZoneComps(e, k, zoneComponents) ==
    [i \in 1..Len(zoneComponents) |->
        SwimlaneComp(e, k, zoneComponents[i], Max(0, MapIndex(e.flowOrder, zoneComponents[i].id)))]

\* lines 464-509
SwimlanePut(e) ==
    [components |-> Flatten([k \in 1..Len(e.zones) |->
        SwimlaneZoneComps(e, k, SelectSeq(e.components, LAMBDA c : c.zone = e.zones[k].id))]),
     zones |-> [k \in 1..Len(e.zones) |->
        ZoneAt(e.zones[k], e.zoneX[k], e.zoneY[k], e.zoneWidth, e.zoneHeight)],
     gaps |-> <<e.gaps>>]

PlaceSwimlane(e) == SwimlanePut(SwimlaneZones(SwimlaneSizes(e)))

-----------------------------------------------------------------------------
(* hub and fanout with zones: layout.js lines 536-677 *)

\* assignCenteredRows, the row of the k-th (from 0) component that is not the
\* center; centered is 1 when the center is among the components, else 0.
\* rows.size is centered + k; step has grown once for every odd size before.
CenteredRow(centered, k) ==
    IF (centered + k) % 2 = 0
    THEN 1 + Cardinality({j \in 0..(k - 1) : (centered + j) % 2 = 1})
    ELSE 0 - (1 + Cardinality({j \in 0..(k - 1) : (centered + j) % 2 = 1}))

\* the rows of the ordered components (lines 287-298)
CenteredRows(ordered, centerId) ==
    LET others == SelectSeq([i \in 1..Len(ordered) |-> i], LAMBDA i : ordered[i].id # centerId)
    IN [id \in SeqToSet(CompIds(ordered)) |->
          IF id = centerId THEN 0
          ELSE CenteredRow(Len(ordered) - Len(others),
                           (CHOOSE k \in 1..Len(others) : ordered[others[k]].id = id) - 1)]

\* assignCenteredRows: the row of each id; centerId "" for none.  The sort
\* key is flowIndex.get(id) ?? 9999.
AssignCenteredRows(comps, centerId, flowOrder) ==
    CenteredRows(StableSortByKeys(comps,
                    [i \in 1..Len(comps) |->
                        IF MapIndex(flowOrder, comps[i].id) >= 0
                        THEN MapIndex(flowOrder, comps[i].id) ELSE 9999]),
                 centerId)

\* one entry of zoneStats (lines 543-557)
ZoneStat(zone, zoneComps) ==
    [zone |-> zone, components |-> zoneComps,
     maxWidth |-> IF MaxWidthOf(zoneComps) = 0 THEN 60 ELSE MaxWidthOf(zoneComps),
     maxHeight |-> IF MaxHeightOf(zoneComps) = 0 THEN 60 ELSE MaxHeightOf(zoneComps)]

\* pickHub (lines 566-572)
PickHub(e) ==
    OrElse(FirstOnPath(e.primaryPath, e.components),
           OrElse(TopId(BothEnds(NamedPairs(e.connectionPairs))), e.components[1].id))

\* pickSource (lines 574-583)
PickSource(e) ==
    IF e.primaryPath # <<>> THEN e.primaryPath[1]
    ELSE OrElse(TopId(FromEnds(NamedPairs(e.connectionPairs))), e.components[1].id)

\* lines 543-587; centerZoneId is centerComp?.zone, "" without a center component
ZonedStats(e) ==
    LET centerId == IF e.config.profile = "hub" THEN PickHub(e) ELSE PickSource(e)
    IN [zoneStats |-> [k \in 1..Len(e.zones) |->
            ZoneStat(e.zones[k], SelectSeq(e.components, LAMBDA c : c.zone = e.zones[k].id))],
        centerId |-> centerId,
        centerZoneId |-> IF HasComp(e.components, centerId)
                         THEN FindComp(e.components, centerId).zone ELSE ""] @@ e

\* zoneContentHeight of each zone for given gaps, pixels (lines 590-592, 610-612)
ZoneContentHeights(e, gaps) ==
    [k \in 1..Len(e.zoneStats) |->
        Max(1, Len(e.zoneStats[k].components)) * (e.zoneStats[k].maxHeight + gaps.rowGap * 2)]

\* zoneHeight of each zone, half pixels (lines 594, 614)
ZonedHeights(e, contentHeights) ==
    [k \in 1..Len(e.zoneStats) |->
        2 * Max(MinZoneHeight,
                contentHeights[k] + e.config.zonePadding * 2 + e.config.zoneLabelHeight)]

\* lines 589-614
ZonedSizes(e) ==
    LET zoneWidth == [k \in 1..Len(e.zoneStats) |->
                        2 * Max(MinZoneWidth, e.zoneStats[k].maxWidth + e.config.zonePadding * 2)]
        gaps == GapsFor(e.config,
                        SumSeq(zoneWidth) + 2 * Max(0, Len(e.zoneStats) - 1) * e.config.zoneGap,
                        SeqMax(ZonedHeights(e, ZoneContentHeights(e, e.baseGaps)), 0),
                        e.isTB)
    IN [gaps |-> gaps,
        cellHeight |-> [k \in 1..Len(e.zoneStats) |-> e.zoneStats[k].maxHeight + gaps.rowGap * 2],
        zoneContentHeight |-> ZoneContentHeights(e, gaps),
        zoneWidth |-> zoneWidth,
        zoneHeight |-> ZonedHeights(e, ZoneContentHeights(e, gaps))] @@ e

\* zoneX, zoneY, centerX, contentStartY, rowById of each zone (lines 608,
\* 616-633, 651)
ZonedFrames(e) ==
    LET current(k) == 2 * (IF e.isTB THEN e.config.startY ELSE e.config.startX)
                      + SumSeq([j \in 1..(k - 1) |->
                            (IF e.isTB THEN e.zoneHeight[j] ELSE e.zoneWidth[j])
                            + 2 * e.config.zoneGap])
    IN [zoneX |-> [k \in 1..Len(e.zoneStats) |-> IF e.isTB THEN 2 * e.config.startX ELSE current(k)],
        zoneY |-> [k \in 1..Len(e.zoneStats) |-> IF e.isTB THEN current(k) ELSE 2 * e.config.startY],
        centerX |-> [k \in 1..Len(e.zoneStats) |->
            (IF e.isTB THEN 2 * e.config.startX ELSE current(k)) + e.zoneWidth[k] \div 2],
        contentStartY |-> [k \in 1..Len(e.zoneStats) |->
            (IF e.isTB THEN current(k) ELSE 2 * e.config.startY) + 2 * e.config.zoneLabelHeight
            + (e.zoneHeight[k] - 2 * e.config.zoneLabelHeight - 2 * e.zoneContentHeight[k]) \div 2
            + e.cellHeight[k]],
        rowById |-> [k \in 1..Len(e.zoneStats) |->
            AssignCenteredRows(e.zoneStats[k].components,
                               IF e.zoneStats[k].zone.id = e.centerZoneId THEN e.centerId ELSE "",
                               e.flowOrder)]] @@ e

\* the components pushed for the k-th zone (lines 631-649); rows[i] is
\* rowById.get(comps[i].id)
ZonedZoneComps(e, k, comps, rows) ==
    [i \in 1..Len(comps) |->
        PlaceAt(comps[i], e.centerX[k],
                e.contentStartY[k] + 2 * (rows[i] - SeqMin(rows, rows[1])) * e.cellHeight[k])]

\* lines 609-652
ZonedPut(e) ==
    [components |-> Flatten([k \in 1..Len(e.zoneStats) |->
        ZonedZoneComps(e, k, e.zoneStats[k].components,
                       [i \in 1..Len(e.zoneStats[k].components) |->
                            e.rowById[k][e.zoneStats[k].components[i].id]])]),
     zones |-> [k \in 1..Len(e.zoneStats) |->
        ZoneAt(e.zoneStats[k].zone, e.zoneX[k], e.zoneY[k], e.zoneWidth[k], e.zoneHeight[k])],
     gaps |-> <<e.gaps>>]

PlaceZonedHubFanout(e) == ZonedPut(ZonedFrames(ZonedSizes(ZonedStats(e))))

-----------------------------------------------------------------------------
(* The result: layout.js lines 328-339, 435, 536, 1037-1060 *)

\* the branch calculateLayout takes (lines 435, 536, 679)
Placement(e) ==
    IF e.useZones /\ e.config.profile = "swimlane" THEN PlaceSwimlane(e)
    ELSE IF e.useZones /\ e.config.profile \in {"hub", "fanout"} THEN PlaceZonedHubFanout(e)
    ELSE PlaceGroups(e, 1, NothingPlaced(e))

\* maxX and maxY, half pixels (lines 1038-1047)
ContentMax(zones, bounds) ==
    [maxX |-> SeqMax([i \in 1..Len(bounds) |-> bounds[i].x + bounds[i].width],
                     SeqMax([i \in 1..Len(zones) |-> zones[i].x + zones[i].width], 0)),
     maxY |-> SeqMax([i \in 1..Len(bounds) |-> bounds[i].y + bounds[i].height],
                     SeqMax([i \in 1..Len(zones) |-> zones[i].y + zones[i].height], 0))]

\* the result object of finalizeLayout before the score (lines 329-336);
\* stage sizes in half pixels
ResultOf(e, p, m) ==
    [components |-> p.components,
     zones |-> IF p.zones # <<>> THEN p.zones
               ELSE IF e.useZones THEN e.scenario.zones ELSE <<>>,
     connections |-> e.scenario.connections,
     flow |-> e.scenario.flow,
     hasComponents |-> TRUE,
     layoutApplied |-> TRUE,
     stageWidth |-> Max(2 * e.config.viewBoxWidth, m.maxX + 2 * e.config.padding),
     stageHeight |-> Max(2 * e.config.viewBoxHeight, m.maxY + 2 * e.config.padding),
     gaps |-> p.gaps]

\* result._layoutScore = scoreLayoutResult(result) (lines 338-339)
Scored(r) ==
    [layoutScore |-> ScoreLayoutResult(r.components, r.connections)] @@ r

\* lines 1037-1050 and 329-336
Finalized(e, p) ==
    ResultOf(e, p, ContentMax(p.zones, [i \in 1..Len(p.components) |-> GetBoundsFromAnchor(p.components[i])]))

\* the result object an invocation builds from its locals, with its score.
\* gaps is not a field of the source's object: it records the gaps each group
\* was placed with.
BuildFrom(e) == Scored(Finalized(e, Placement(e)))

\* the result object of the invocation with scenario sc and merged config cfg
BuildResult(sc, cfg) == BuildFrom(Env(sc, cfg))

-----------------------------------------------------------------------------
(* Inputs *)

\* the largest number of components of a scenario
MaxComps == 4

Ids == <<"a", "b", "c", "d", "e", "f">>

\* a component as the caller gives it: no size fields, not yet placed
Comp(id, type, zone) ==
    [id |-> id, type |-> type, zone |-> zone, sizeKind |-> "none", sizeA |-> 0, sizeB |-> 0,
     width |-> 0, height |-> 0, radius |-> 0, x |-> 0, y |-> 0]

\* a component with size: [w, h]
Sized(id, w, h) == [Comp(id, "rectangle", "") EXCEPT !.sizeKind = "array", !.sizeA = w, !.sizeB = h]

\* a connection between two component ids
Conn(from, to) ==
    [from |-> [isPoint |-> FALSE, id |-> from, x |-> 0, y |-> 0],
     to |-> [isPoint |-> FALSE, id |-> to, x |-> 0, y |-> 0]]

\* a connection from an explicit point (pixels) to a component id
FromPoint(x, y, to) ==
    [from |-> [isPoint |-> TRUE, id |-> "", x |-> x, y |-> y],
     to |-> [isPoint |-> FALSE, id |-> to, x |-> 0, y |-> 0]]

MixedTypes == <<"rectangle", "circle", "database", "", "diamond", "container">>

Scenario(components, zones, connections, flow) ==
    [hasComponents |-> TRUE, components |-> components, zones |-> zones,
     connections |-> connections, flow |-> flow]

\* a -> b -> c ...
Chain(n) == [i \in 1..(n - 1) |-> Conn(Ids[i], Ids[i + 1])]

ScenarioKinds == {"plain", "chain", "cross", "bidi", "zoned", "dangling", "big", "lanes", "fan"}

\* the scenario of a kind with n components
ScenarioOf(kind, n) ==
    CASE kind = "plain" ->
           \* no connections; with n = 0 the components key is absent
           [Scenario([i \in 1..n |-> Comp(Ids[i], "rectangle", "")], <<>>, <<>>, <<>>)
              EXCEPT !.hasComponents = n > 0]
      [] kind = "chain" ->
           Scenario([i \in 1..n |-> Comp(Ids[i], MixedTypes[i], "")], <<>>, Chain(n), <<>>)
      [] kind = "cross" ->
           \* the flow names the last component first and leaves some out
           Scenario([i \in 1..n |-> Comp(Ids[i], "rectangle", "")], <<>>,
                    <<Conn("a", "d"), Conn("b", "c"), FromPoint(10, 10, "a"), Conn("a", "zz")>>,
                    IF n >= 2 THEN <<Ids[n], Ids[n - 1]>> ELSE <<>>)
      [] kind = "bidi" ->
           Scenario([i \in 1..n |-> Comp(Ids[i], "rectangle", "")], <<>>,
                    <<Conn("a", "d"), Conn("d", "a"), Conn("b", "c"), Conn("c", "b")>>, <<>>)
      [] kind = "zoned" ->
           Scenario([i \in 1..n |-> Comp(Ids[i], MixedTypes[i], IF i % 2 = 1 THEN "z1" ELSE "z2")],
                    <<[id |-> "z1"], [id |-> "z2"]>>, Chain(n), <<>>)
      [] kind = "dangling" ->
           \* b has no zone, c names a zone that is not in zones
           Scenario([i \in 1..n |-> Comp(Ids[i], "rectangle",
                                         IF i = 2 THEN "" ELSE IF i = 3 THEN "zx" ELSE "z1")],
                    <<[id |-> "z1"]>>, Chain(n), <<>>)
      [] kind = "big" ->
           Scenario([i \in 1..n |-> Sized(Ids[i], 400, IF i = 3 THEN 160 ELSE 135)],
                    <<>>, Chain(n), <<>>)
      [] kind = "fan" ->
           \* a, the only component of the flow, is connected to every other
           Scenario([i \in 1..n |-> Comp(Ids[i], "rectangle", "")], <<>>,
                    [i \in 1..(n - 1) |-> Conn("a", Ids[i + 1])], <<"a">>)
      [] OTHER ->
           \* "lanes": two zones and an explicit flow, last component first
           Scenario([i \in 1..n |-> Comp(Ids[i], "rectangle", IF i % 2 = 1 THEN "z1" ELSE "z2")],
                    <<[id |-> "z1"], [id |-> "z2"]>>, Chain(n),
                    [i \in 1..n |-> Ids[n + 1 - i]])

\* "" is an absent profile, "mesh" a name that is no profile
Profiles == {"", "pipeline", "hub", "fanout", "tiered", "swimlane", "mesh"}

Directions == {"LR", "TB"}

ConfigKinds == {"default", "loose", "tiny", "typed", "nopath", "gap80", "flush"}

\* the layoutConfig of a kind
ConfigOf(kind, profile, direction) ==
    CASE kind = "default" ->
           [EmptyLayoutConfig EXCEPT !.profile = profile, !.direction = direction]
      [] kind = "loose" ->
           [EmptyLayoutConfig EXCEPT !.profile = profile, !.direction = direction,
                                     !.hints = [primaryPath |-> <<>>, grouping |-> "none",
                                                compact |-> FALSE],
                                     !.maxRepairPasses = 1]
      [] kind = "tiny" ->
           [EmptyLayoutConfig EXCEPT !.profile = profile, !.direction = direction,
                                     !.columnGap = 1, !.rowGap = 1, !.componentGap = 1]
      [] kind = "typed" ->
           [EmptyLayoutConfig EXCEPT !.profile = profile, !.direction = direction,
                                     !.hints = [primaryPath |-> <<"b", "zz", "a">>,
                                                grouping |-> "type", compact |-> TRUE],
                                     !.maxRepairPasses = 0]
      [] kind = "gap80" ->
           [EmptyLayoutConfig EXCEPT !.profile = profile, !.direction = direction,
                                     !.columnGap = 80]
      [] kind = "flush" ->
           \* no gaps at all, kept as they are, and groups by type
           [EmptyLayoutConfig EXCEPT !.profile = profile, !.direction = direction,
                                     !.columnGap = 0, !.rowGap = 0, !.componentGap = 0,
                                     !.zoneGap = 0,
                                     !.hints = [primaryPath |-> <<>>, grouping |-> "type",
                                                compact |-> FALSE]]
      [] OTHER ->
           \* "nopath": a primary path that names no component
           [EmptyLayoutConfig EXCEPT !.profile = profile, !.direction = direction,
                                     !.hints = [primaryPath |-> <<"zz">>, grouping |-> "",
                                                compact |-> TRUE]]

-----------------------------------------------------------------------------
(* One call of calculateLayout, with its repair recursion *)

\* CallerComponentsAfter with the sort of line 683 done on the array itself
SortedInPlace(sc, cfg) ==
    StableSortByKeys(sc.components,
        [i \in 1..Len(sc.components) |-> GetOrderIndex(Locals(sc, cfg), sc.components[i])])

\* the caller's scenario.components after an invocation has placed: the
\* source sorts copies ([...groupComps].sort, line 683; [...components].sort,
\* line 280), so the caller's array keeps its order
CallerComponentsAfter(sc, cfg) == sc.components

\* EmptyReturn with the layout marker added to a copy
EmptyMarked(sc) == [layoutApplied |-> TRUE] @@ sc

\* return scenario (line 325)
EmptyReturn(sc) == sc

NoResult == [returned |-> FALSE]

\* no function is run on its own during a call of calculateLayout
NoUnit == [fn |-> ""]

\* what the call keeps of an attempt: its pass, score and gaps
Attempt(cfg, r) ==
    [pass |-> cfg.repairPass, score |-> r.layoutScore, gaps |-> r.gaps,
     compact |-> cfg.hints.compact, config |-> BaseGaps(cfg)]

Init ==
    /\ scenario \in {ScenarioOf(kind, n) : kind \in ScenarioKinds, n \in 0..MaxComps}
    /\ layoutConfig \in {ConfigOf(kind, profile, direction) :
            kind \in ConfigKinds, profile \in Profiles, direction \in Directions}
    /\ input = [scenario |-> scenario, layoutConfig |-> layoutConfig]
    /\ pc = "call"
    /\ arg = layoutConfig
    /\ config = MergeConfig(layoutConfig)
    /\ placed = NoResult
    /\ result = NoResult
    /\ attempts = <<>>
    /\ unit = NoUnit

\* lines 309-322: an invocation merges its config
Enter ==
    /\ pc = "call"
    /\ config' = MergeConfig(arg)
    /\ pc' = "check"
    /\ UNCHANGED <<scenario, layoutConfig, input, arg, placed, result, attempts, unit>>

\* lines 324-326
ReturnEmpty ==
    /\ pc = "check"
    /\ Len(Components(scenario)) = 0
    /\ result' = EmptyReturn(scenario)
    /\ pc' = "done"
    /\ UNCHANGED <<scenario, layoutConfig, input, arg, config, placed, attempts, unit>>

\* lines 357-1060 and 329-339: the placement, the result object and its score
Place ==
    /\ pc = "check"
    /\ Len(Components(scenario)) # 0
    /\ placed' = BuildResult(scenario, config)
    /\ attempts' = Append(attempts, Attempt(config, placed'))
    /\ scenario' = [scenario EXCEPT !.components = CallerComponentsAfter(scenario, config)]
    /\ pc' = "finalize"
    /\ UNCHANGED <<layoutConfig, input, arg, config, result, unit>>

\* lines 341-351: return calculateLayout(scenario, nextConfig)
Repair ==
    /\ pc = "finalize"
    /\ NeedsRepair(placed.layoutScore, config)
    /\ arg' = NextConfig(config)
    /\ pc' = "call"
    /\ UNCHANGED <<scenario, layoutConfig, input, config, placed, result, attempts, unit>>

\* line 354: return result
Return ==
    /\ pc = "finalize"
    /\ ~NeedsRepair(placed.layoutScore, config)
    /\ result' = placed
    /\ pc' = "done"
    /\ UNCHANGED <<scenario, layoutConfig, input, arg, config, placed, attempts, unit>>

Next == Enter \/ ReturnEmpty \/ Place \/ Repair \/ Return

Spec == Init /\ [][Next]_vars

\* the step of Place on pc: the placement is loops over finite arrays with no
\* early exit, so an invocation that starts it reaches finalizeLayout
Placing == pc = "check" /\ Len(Components(scenario)) # 0 /\ pc' = "finalize"

\* a call that has started runs each of its steps: calculateLayout is
\* synchronous code with nothing to wait for
FairSpec ==
    /\ Spec
    /\ WF_vars(Enter) /\ WF_vars(ReturnEmpty) /\ WF_pc(Placing)
    /\ WF_vars(Repair) /\ WF_vars(Return)

-----------------------------------------------------------------------------
(* Functions run on their own.  unit holds the name of the function, its    *)
(* arguments, its locals and its result; no call of calculateLayout is in   *)
(* progress meanwhile.                                                      *)

\* the call variables while no call of calculateLayout is made
NoCall ==
    /\ scenario = ScenarioOf("plain", 0)
    /\ layoutConfig = EmptyLayoutConfig
    /\ input = [scenario |-> scenario, layoutConfig |-> layoutConfig]
    /\ pc = "idle"
    /\ arg = layoutConfig
    /\ config = MergeConfig(layoutConfig)
    /\ placed = NoResult
    /\ result = NoResult
    /\ attempts = <<>>

(* inferPrimaryPath: scene-analyzer.js lines 51-91 *)

\* the largest number of components and of connections of a graph
MaxNodes == 3
MaxEdges == 3

\* edges of buildGraph: the connections with both ids named (lines 57-61)
GraphEdges(connections) ==
    SelectSeq([i \in 1..Len(connections) |->
                  [from |-> EndpointId(connections[i].from), to |-> EndpointId(connections[i].to)]],
              LAMBDA e : e.from # "" /\ e.to # "")

\* inDegree.get(id) || 0 and outDegree.get(id) || 0 (lines 62-63)
InDegree(edges, id) == Cardinality({i \in 1..Len(edges) : edges[i].to = id})
OutDegree(edges, id) == Cardinality({i \in 1..Len(edges) : edges[i].from = id})

\* components.map(c => c.id).filter(Boolean) (line 73)
NodeIds(components) == SelectSeq(CompIds(components), LAMBDA id : id # "")

\* sources[0] || nodeIds[0], "" for undefined (lines 76-77)
FirstNode(edges, nodeIds) ==
    IF SelectSeq(nodeIds, LAMBDA id : InDegree(edges, id) = 0) # <<>>
    THEN SelectSeq(nodeIds, LAMBDA id : InDegree(edges, id) = 0)[1]
    ELSE IF nodeIds # <<>> THEN nodeIds[1] ELSE ""

\* edges.filter(e => e.from === current).map(e => e.to) (line 84)
Outgoing(edges, current) ==
    [i \in 1..Len(SelectSeq(edges, LAMBDA e : e.from = current)) |->
        SelectSeq(edges, LAMBDA e : e.from = current)[i].to]

\* outgoing sorted by falling outDegree, which is stable (line 86)
SortedOutgoing(edges, outgoing) ==
    StableSortByKeys(outgoing, [i \in 1..Len(outgoing) |-> 0 - OutDegree(edges, outgoing[i])])

\* the graphs inferPrimaryPath is run on: n components, and connections
\* between the first MaxNodes ids, so that with n < MaxNodes a connection can
\* name an id that is no component
InferInputs ==
    {[fn |-> "inferPrimaryPath", at |-> "start",
      components |-> [i \in 1..n |-> Comp(Ids[i], "rectangle", "")],
      connections |-> cs, current |-> "", path |-> <<>>, returned |-> <<>>] :
        n \in 0..MaxNodes,
        cs \in UNION {[1..k -> {Conn(Ids[i], Ids[j]) : i, j \in 1..MaxNodes}] : k \in 0..MaxEdges}}

\* lines 72-79: without edges the node ids are returned, else the walk starts
InferStart ==
    /\ unit.fn = "inferPrimaryPath" /\ unit.at = "start"
    /\ unit' = IF GraphEdges(unit.connections) = <<>>
               THEN [unit EXCEPT !.at = "done", !.returned = NodeIds(unit.components)]
               ELSE [unit EXCEPT !.at = "while",
                                 !.current = FirstNode(GraphEdges(unit.connections),
                                                       NodeIds(unit.components))]
    /\ UNCHANGED callVars

\* one turn of the while loop (lines 81-88); visited holds the ids of path
InferVisit ==
    /\ unit.fn = "inferPrimaryPath" /\ unit.at = "while"
    /\ unit.current # "" /\ unit.current \notin SeqToSet(unit.path)
    /\ unit' = IF Outgoing(GraphEdges(unit.connections), unit.current) = <<>>
               THEN [unit EXCEPT !.at = "return", !.path = Append(unit.path, unit.current)]
               ELSE [unit EXCEPT !.path = Append(unit.path, unit.current),
                                 !.current = SortedOutgoing(GraphEdges(unit.connections),
                                                Outgoing(GraphEdges(unit.connections), unit.current))[1]]
    /\ UNCHANGED callVars

\* the loop is left and the path returned (lines 81 and 90)
InferReturn ==
    /\ unit.fn = "inferPrimaryPath"
    /\ \/ unit.at = "return"
       \/ unit.at = "while" /\ (unit.current = "" \/ unit.current \in SeqToSet(unit.path))
    /\ unit' = [unit EXCEPT !.at = "done",
                            !.returned = IF unit.path # <<>> THEN unit.path
                                         ELSE NodeIds(unit.components)]
    /\ UNCHANGED callVars

(* centerToAnchor and getComponentCenter: layout.js lines 139-186 *)

ShapeTypes ==
    {"rectangle", "circle", "diamond", "hexagon", "cylinder", "cloud", "server",
     "database", "user", "gear", "container", "", "blob"}

\* the components of every shape kind and size specification, and the
\* centers (half pixels) they are placed at; 0 is an absent number
AnchorInputs ==
    {[fn |-> "centerToAnchor", at |-> "start",
      component |-> [Comp("a", type, "") EXCEPT !.sizeKind = kind, !.sizeA = sa, !.sizeB = sb,
                                               !.width = w, !.height = h, !.radius = r],
      centerX |-> cx, centerY |-> cy, center |-> [x |-> 0, y |-> 0]] :
        type \in ShapeTypes, kind \in {"none", "array", "number"},
        sa \in {0, 75}, sb \in {0, 41}, w \in {0, 33}, h \in {0, 90}, r \in {0, 20},
        cx \in {0, 201, 1200}, cy \in {0, 155}}

\* const anchor = centerToAnchor(centerX, centerY, comp), stored as x and y
\* of the pushed component (lines 778-787)
ToAnchor ==
    /\ unit.fn = "centerToAnchor" /\ unit.at = "start"
    /\ unit' = [unit EXCEPT !.at = "placed",
                            !.component = PlaceAt(unit.component, unit.centerX, unit.centerY)]
    /\ UNCHANGED callVars

\* getComponentCenter of the placed component (lines 180-186)
ToCenter ==
    /\ unit.fn = "centerToAnchor" /\ unit.at = "placed"
    /\ unit' = [unit EXCEPT !.at = "done", !.center = GetComponentCenter(unit.component)]
    /\ UNCHANGED callVars

(* Connection resolver: connection-resolver.js (src/unnamed/part_001).      *)
(* Its coordinates are in half pixels, the explicit points of a connection  *)
(* included; widths and heights are in pixels.  0 is an absent number.      *)

\* DEFAULT_DIMENSIONS[type], without the radius no line reads (lines 20-33)
DEFAULT_DIMENSIONS ==
    [rectangle |-> [width |-> 120, height |-> 60, size |-> 0],
     circle |-> [width |-> 0, height |-> 0, size |-> 0],
     diamond |-> [width |-> 0, height |-> 0, size |-> 60],
     hexagon |-> [width |-> 0, height |-> 0, size |-> 40],
     cylinder |-> [width |-> 80, height |-> 100, size |-> 0],
     cloud |-> [width |-> 120, height |-> 70, size |-> 0],
     server |-> [width |-> 60, height |-> 80, size |-> 0],
     database |-> [width |-> 60, height |-> 80, size |-> 0],
     user |-> [width |-> 56, height |-> 80, size |-> 0],
     gear |-> [width |-> 0, height |-> 0, size |-> 30],
     container |-> [width |-> 200, height |-> 150, size |-> 0],
     zone |-> [width |-> 300, height |-> 200, size |-> 0]]

\* const type and const defaults of getComponentBounds (lines 56-57)
DefaultsOf(component) ==
    IF component.type \in DOMAIN DEFAULT_DIMENSIONS THEN DEFAULT_DIMENSIONS[component.type]
    ELSE DEFAULT_DIMENSIONS.rectangle

\* a || b || c of numbers
OrElse3(a, b, c) == IF a # 0 THEN a ELSE IF b # 0 THEN b ELSE c

\* x and y of getComponentBounds, in pixels (lines 62-70)
PositionOf(component) ==
    CASE component.positionKind = "array" -> [x |-> component.positionX, y |-> component.positionY]
      [] component.positionKind = "object" ->
            [x |-> OrElse3(component.positionX, component.x, 0),
             y |-> OrElse3(component.positionY, component.y, 0)]
      [] OTHER -> [x |-> component.x, y |-> component.y]

\* width and height of getComponentBounds (lines 73-88)
ExtentOf(component, defaults) ==
    CASE component.sizeKind = "array" -> [width |-> component.sizeA, height |-> component.sizeB]
      [] component.sizeKind = "number" -> [width |-> component.sizeA * 2, height |-> component.sizeA * 2]
      [] component.type = "circle" /\ component.radius # 0 ->
            [width |-> component.radius * 2, height |-> component.radius * 2]
      [] OTHER ->
            [width |-> OrElse3(component.width, defaults.width,
                               IF defaults.size # 0 THEN defaults.size * 2 ELSE 60),
             height |-> OrElse3(component.height, defaults.height,
                                IF defaults.size # 0 THEN defaults.size * 2 ELSE 60)]

\* centeredTypes of getComponentBounds (line 95)
centeredTypes == {"circle", "diamond", "hexagon", "user", "database", "gear"}

\* the returned box of a component at position p with extent e (lines 91-108)
BoxOf(component, p, e) ==
    [x |-> IF component.type \in centeredTypes THEN 2 * p.x - e.width ELSE 2 * p.x,
     y |-> IF component.type \in centeredTypes THEN 2 * p.y - e.height ELSE 2 * p.y,
     width |-> e.width, height |-> e.height,
     centerX |-> (IF component.type \in centeredTypes THEN 2 * p.x - e.width ELSE 2 * p.x) + e.width,
     centerY |-> (IF component.type \in centeredTypes THEN 2 * p.y - e.height ELSE 2 * p.y) + e.height]

\* getComponentBounds (lines 55-109)
GetComponentBounds(component) ==
    BoxOf(component, PositionOf(component), ExtentOf(component, DefaultsOf(component)))

\* toBounds of an explicit point (line 251)
PointBounds(p) == [centerX |-> p.x, centerY |-> p.y, x |-> p.x, y |-> p.y, width |-> 0, height |-> 0]

\* a resolved endpoint: the point (x, y)
ResolvedPoint(x, y) == [isPoint |-> TRUE, id |-> "", x |-> x, y |-> y]

\* getConnectionPoint (lines 117-131)
GetConnectionPoint(bounds, point) ==
    CASE point = "top" -> ResolvedPoint(bounds.centerX, bounds.y)
      [] point = "bottom" -> ResolvedPoint(bounds.centerX, bounds.y + 2 * bounds.height)
      [] point = "left" -> ResolvedPoint(bounds.x, bounds.centerY)
      [] point = "right" -> ResolvedPoint(bounds.x + 2 * bounds.width, bounds.centerY)
      [] OTHER -> ResolvedPoint(bounds.centerX, bounds.centerY)

\* ChosenSides with the target entered on the side the source is left on
ChosenSidesSame(dx, dy) ==
    IF Abs(dx) > Abs(dy)
    THEN IF dx > 0 THEN [from |-> "right", to |-> "right"] ELSE [from |-> "left", to |-> "left"]
    ELSE IF dy > 0 THEN [from |-> "bottom", to |-> "bottom"] ELSE [from |-> "top", to |-> "top"]

\* fromPoint and toPoint for the deltas dx and dy of the centers (lines 146-164)
ChosenSides(dx, dy) ==
    IF Abs(dx) > Abs(dy)
    THEN IF dx > 0 THEN [from |-> "right", to |-> "left"] ELSE [from |-> "left", to |-> "right"]
    ELSE IF dy > 0 THEN [from |-> "bottom", to |-> "top"] ELSE [from |-> "top", to |-> "bottom"]

\* calculateOptimalConnectionPoints (lines 139-170)
CalculateOptimalConnectionPoints(fromBounds, toBounds) ==
    LET sides == ChosenSides(toBounds.centerX - fromBounds.centerX,
                             toBounds.centerY - fromBounds.centerY)
    IN [from |-> GetConnectionPoint(fromBounds, sides.from),
        to |-> GetConnectionPoint(toBounds, sides.to)]

\* whether getComponent(id) finds a component (lines 227-229); componentMap
\* holds the registered components and zones by id
Registered(componentMap, e) == ~e.isPoint /\ e.id \in DOMAIN componentMap

\* toBounds of lines 249-251, for a to that is resolvable
ToBounds(componentMap, to) ==
    IF to.isPoint THEN PointBounds(to) ELSE GetComponentBounds(componentMap[to.id])

\* a component of the resolver's lookup
Registrable(id, type, kind, x, y) ==
    [positionKind |-> kind,
     positionX |-> IF kind = "none" THEN 0 ELSE x, positionY |-> IF kind = "none" THEN 0 ELSE y]
    @@ [Comp(id, type, "") EXCEPT !.x = IF kind = "none" THEN x ELSE 5,
                                   !.y = IF kind = "none" THEN y ELSE 5]

\* the size specifications a component is given: none, size: [75, 41],
\* size: 20, width: 33 and radius: 20
SizeSpecs == {"none", "array", "number", "width", "radius"}

WithSize(component, spec) ==
    CASE spec = "array" -> [component EXCEPT !.sizeKind = "array", !.sizeA = 75, !.sizeB = 41]
      [] spec = "number" -> [component EXCEPT !.sizeKind = "number", !.sizeA = 20]
      [] spec = "width" -> [component EXCEPT !.width = 33]
      [] spec = "radius" -> [component EXCEPT !.radius = 20]
      [] OTHER -> component

\* the endpoints a connection is given: a registered id, an id that is not
\* registered, or an explicit point
EndpointsOf(id) ==
    {[isPoint |-> FALSE, id |-> id, x |-> 0, y |-> 0],
     [isPoint |-> FALSE, id |-> "zz", x |-> 0, y |-> 0],
     [isPoint |-> TRUE, id |-> "", x |-> 1200, y |-> 400],
     [isPoint |-> TRUE, id |-> "", x |-> 0, y |-> 0]}

\* the connections resolveConnection is run on: a of every kind at position
\* (40, 70), b around it, and the endpoints of EndpointsOf
ResolveInputs ==
    {[fn |-> "resolveConnection", at |-> "from",
      componentMap |-> [id \in {"a", "b"} |->
                          IF id = "a" THEN WithSize(Registrable("a", ta, ka, 40, 70), sa)
                          ELSE Registrable("b", tb, "none", bx, by)],
      connection |-> [from |-> f, to |-> t], resolved |-> [from |-> f, to |-> t],
      warnings |-> 0] :
        ta \in {"rectangle", "circle", "hexagon", "blob"}, ka \in {"none", "array", "object"},
        sa \in SizeSpecs, tb \in {"rectangle", "circle"},
        bx \in {40, 240, 0 - 160, 70, 0}, by \in {70, 270, 0 - 130, 100, 0},
        f \in EndpointsOf("a"), t \in EndpointsOf("b")}

\* Resolve 'from' (lines 237-263)
ResolveFrom ==
    /\ unit.fn = "resolveConnection" /\ unit.at = "from"
    /\ unit' =
         IF unit.connection.from.isPoint THEN [unit EXCEPT !.at = "to"]
         ELSE IF ~Registered(unit.componentMap, unit.connection.from)
         THEN [unit EXCEPT !.at = "to", !.warnings = @ + 1]
         ELSE IF unit.connection.to.isPoint \/ Registered(unit.componentMap, unit.connection.to)
         THEN [unit EXCEPT !.at = "to",
                 !.resolved = CalculateOptimalConnectionPoints(
                                 GetComponentBounds(unit.componentMap[unit.connection.from.id]),
                                 ToBounds(unit.componentMap, unit.connection.to))]
         ELSE [unit EXCEPT !.at = "to",
                 !.resolved.from =
                     ResolvedPoint(GetComponentBounds(unit.componentMap[unit.connection.from.id]).centerX,
                                   GetComponentBounds(unit.componentMap[unit.connection.from.id]).centerY)]
    /\ UNCHANGED callVars

\* Resolve 'to' if still a string, and return (lines 265-277)
ResolveTo ==
    /\ unit.fn = "resolveConnection" /\ unit.at = "to"
    /\ unit' =
         IF unit.resolved.to.isPoint THEN [unit EXCEPT !.at = "done"]
         ELSE IF ~Registered(unit.componentMap, unit.connection.to)
         THEN [unit EXCEPT !.at = "done", !.warnings = @ + 1]
         ELSE [unit EXCEPT !.at = "done",
                 !.resolved.to =
                     ResolvedPoint(GetComponentBounds(unit.componentMap[unit.connection.to.id]).centerX,
                                   GetComponentBounds(unit.componentMap[unit.connection.to.id]).centerY)]
    /\ UNCHANGED callVars

(* scoreLayoutResult and getCompactedGaps: layout.js lines 196-274 *)

\* the largest number of connections of a layout that is scored
MaxSegments == 2

\* a box of 40 by 20 pixels with its top left corner at (x, y), half pixels
Box(id, x, y) == [Sized(id, 40, 20) EXCEPT !.x = x, !.y = y]

\* the connections of the layouts that are scored: between components,
\* from an explicit point, and to an id that is no component
ScoredConnections ==
    {Conn("a", "d"), Conn("b", "c"), Conn("a", "b"), Conn("c", "d"), Conn("a", "c"),
     FromPoint(20, 60, "b"), Conn("a", "zz")}

\* the layouts scoreLayoutResult is run on: four boxes that overlap, touch
\* or lie apart, and up to MaxSegments connections
ScoreInputs ==
    {[fn |-> "scoreLayoutResult", at |-> "start",
      components |-> <<Box("a", 0, 0), Box("b", bx, by), Box("c", cx, cy), Box("d", dx, dy)>>,
      connections |-> cs, score |-> [overlaps |-> 0, crossings |-> 0, total |-> 0]] :
        bx \in {40, 80, 200}, by \in {0, 100}, cx \in {0, 200}, cy \in {40, 100},
        dx \in {0, 200}, dy \in {20, 100},
        cs \in UNION {[1..k -> ScoredConnections] : k \in 0..MaxSegments}}

\* scoreLayoutResult(scenario) (lines 196-250)
ScoreLayout ==
    /\ unit.fn = "scoreLayoutResult" /\ unit.at = "start"
    /\ unit' = [unit EXCEPT !.at = "done",
                            !.score = ScoreLayoutResult(unit.components, unit.connections)]
    /\ UNCHANGED callVars

\* the configs getCompactedGaps is run on: a wide and a narrow canvas, a
\* padding that leaves room and one that leaves none, gaps above and at
\* their minimums
GapConfigs ==
    {[viewBoxWidth |-> w, viewBoxHeight |-> h, padding |-> p,
      columnGap |-> cg, rowGap |-> 140, componentGap |-> mg,
      minColumnGap |-> mins[1], minRowGap |-> mins[2], minComponentGap |-> mins[3]] :
        w \in {1200, 100}, h \in {700, 60}, p \in {40, 60}, cg \in {200, 15}, mg \in {40, 7},
        mins \in {<<100, 80, 20>>, <<0, 0, 0>>, <<15, 150, 7>>}}

\* the needed extents, in half pixels: none, small, and beyond the canvas
NeededExtents == {0, 80, 500, 2240, 3000, 9000}

GapInputs ==
    {[fn |-> "getCompactedGaps", at |-> "start", config |-> cfg,
      neededPrimary |-> np, neededSecondary |-> ns, isTB |-> tb,
      gaps |-> [columnGap |-> 0, rowGap |-> 0, componentGap |-> 0]] :
        cfg \in GapConfigs, np \in NeededExtents, ns \in NeededExtents, tb \in BOOLEAN}

\* getCompactedGaps(config, neededPrimary, neededSecondary, isTB) (lines 255-274)
CompactGaps ==
    /\ unit.fn = "getCompactedGaps" /\ unit.at = "start"
    /\ unit' = [unit EXCEPT !.at = "done",
                            !.gaps = GetCompactedGaps(unit.config, unit.neededPrimary,
                                                     unit.neededSecondary, unit.isTB)]
    /\ UNCHANGED callVars

(* getBoundsFromAnchor and getComponentBounds of one placed component *)

\* the placed components both functions are run on: every shape kind and
\* size specification, pushed by the layout with the anchor (100, 80) as x, y
\* (half pixels) and as position: [x, y] (pixels)
BoundsInputs ==
    {[fn |-> "getComponentBounds", at |-> "start",
      component |-> [positionKind |-> "array", positionX |-> 100, positionY |-> 80]
                    @@ [Comp("a", type, "") EXCEPT !.sizeKind = kind, !.sizeA = sa, !.sizeB = sb,
                                                   !.width = w, !.height = h, !.radius = r,
                                                   !.x = 200, !.y = 160],
      ofLayout |-> [x |-> 0, y |-> 0, width |-> 0, height |-> 0],
      ofResolver |-> [x |-> 0, y |-> 0, width |-> 0, height |-> 0]] :
        type \in ShapeTypes, kind \in {"none", "array", "number"},
        sa \in {0, 75}, sb \in {0, 41}, w \in {0, 33}, h \in {0, 90}, r \in {0, 20}}

\* the box of the resolver with all four fields in half pixels, as
\* getBoundsFromAnchor has them
InHalfPixels(bounds) ==
    [x |-> bounds.x, y |-> bounds.y, width |-> 2 * bounds.width, height |-> 2 * bounds.height]

\* getBoundsFromAnchor(component) of layout.js (lines 157-178) and
\* getComponentBounds(component) of the resolver (lines 55-109)
BoundsOfPlaced ==
    /\ unit.fn = "getComponentBounds" /\ unit.at = "start"
    /\ unit' = [unit EXCEPT !.at = "done",
                            !.ofLayout = GetBoundsFromAnchor(unit.component),
                            !.ofResolver = InHalfPixels(GetComponentBounds(unit.component))]
    /\ UNCHANGED callVars

(* generateStepsFromFlow of one scenario *)

\* const flow (lines 1071-1075): scenario.flow when it is a non-empty list,
\* else the primary path of the layout hints when non-empty, else the ids of
\* the components
FlowOf(s) ==
    IF s.flow # <<>> THEN s.flow
    ELSE IF s.primaryPath # <<>> THEN s.primaryPath
    ELSE [i \in 1..Len(s.components) |-> s.components[i].id]

\* the ids of flow for which components.find(c => c.id === componentId)
\* finds a component (lines 1105-1106), in flow order
NamedInFlow(s, flow) ==
    SelectSeq(flow, LAMBDA id : \E i \in 1..Len(s.components) : s.components[i].id = id)

\* the steps pushed outside the forEach: 'Setup' fading in every zone when
\* zones exist (lines 1096-1102) and 'Complete' glowing every id of flow
\* (lines 1126-1130)
SetupSteps(s) ==
    IF Len(s.zones) > 0
    THEN <<[title |-> "Setup",
            actions |-> [i \in 1..Len(s.zones) |-> [type |-> "fadeIn", target |-> s.zones[i]]]]>>
    ELSE <<>>

CompleteStep(flow) ==
    [title |-> "Complete",
     actions |-> [i \in 1..Len(flow) |-> [type |-> "glow", target |-> flow[i]]]]

\* generateStepsFromFlow(scenario) (lines 1067-1136) as its outcome: threw
\* tells whether the call ended in an exception, steps is the steps list of
\* the returned scenario.  An empty flow returns the scenario as it is
\* (line 1083).  For the first id of flow that names a component the step
\* object is built (lines 1117-1121), and its description reads the
\* identifier stepDescription, which no scope declares (line 1077 declares
\* stepDescriptionFromScenario): the read throws a ReferenceError, before any
\* step of a component is pushed and before line 1132 looks at scenario.steps.
GenerateStepsFromFlowOf(s) ==
    LET flow == FlowOf(s)
    IN IF flow = <<>> THEN [threw |-> FALSE, steps |-> s.steps]
       ELSE IF NamedInFlow(s, flow) # <<>> THEN [threw |-> TRUE, steps |-> <<>>]
       ELSE [threw |-> FALSE,
             steps |-> IF Len(s.steps) > 0 THEN s.steps
                       ELSE SetupSteps(s) \o <<CompleteStep(flow)>>]

\* the scenarios the function is run on: none, one or two components, with
\* and without a zone and a connection, flows and primary paths over known
\* and unknown ids, without steps and with one step given
StepsInputs ==
    {[fn |-> "generateStepsFromFlow", at |-> "start",
      scenario |-> [components |-> comps, connections |-> conns, zones |-> zs,
                    flow |-> flow, primaryPath |-> path, steps |-> steps],
      outcome |-> [threw |-> FALSE, steps |-> <<>>]] :
        comps \in {<<>>, <<[id |-> "a", label |-> "A"]>>,
                   <<[id |-> "a", label |-> "A"], [id |-> "b", label |-> ""]>>},
        conns \in {<<>>, <<[id |-> "", from |-> "a", to |-> "b"]>>},
        zs \in {<<>>, <<"z">>},
        flow \in {<<>>, <<"a">>, <<"x">>, <<"a", "b">>, <<"b", "a">>, <<"a", "x", "b">>, <<"x", "y">>},
        path \in {<<>>, <<"a">>, <<"x">>},
        steps \in {<<>>, <<[title |-> "Given", actions |-> <<>>]>>}}

GenerateStepsFromFlow ==
    /\ unit.fn = "generateStepsFromFlow" /\ unit.at = "start"
    /\ unit' = [unit EXCEPT !.at = "done", !.outcome = GenerateStepsFromFlowOf(unit.scenario)]
    /\ UNCHANGED callVars

UnitInit ==
    /\ NoCall
    /\ unit \in (InferInputs \cup AnchorInputs \cup ResolveInputs \cup ScoreInputs
                   \cup GapInputs \cup BoundsInputs \cup StepsInputs)

UnitNext ==
    \/ InferStart \/ InferVisit \/ InferReturn
    \/ ToAnchor \/ ToCenter
    \/ ResolveFrom \/ ResolveTo
    \/ ScoreLayout
    \/ CompactGaps
    \/ BoundsOfPlaced
    \/ GenerateStepsFromFlow

UnitSpec == UnitInit /\ [][UnitNext]_vars

-----------------------------------------------------------------------------
(* Properties *)

\* the call has returned the layout of a scenario that has components
ReturnedLayout == pc = "done" /\ Len(Components(input.scenario)) > 0

\* the bounding box b lies inside [0, stageWidth] x [0, stageHeight] of r
InsideStage(b, r) ==
    /\ b.x >= 0 /\ b.y >= 0
    /\ b.x + b.width <= r.stageWidth
    /\ b.y + b.height <= r.stageHeight

\* C1: every component of a returned layout has its bounding box inside
\* [0, _stageWidth] x [0, _stageHeight]
C1_Containment ==
    ReturnedLayout =>
        \A i \in 1..Len(result.components) :
            InsideStage(GetBoundsFromAnchor(result.components[i]), result)

\* C2: a returned layout holds every input component exactly once
C2_EveryComponentOnce ==
    ReturnedLayout =>
        \A i \in 1..Len(input.scenario.components) :
            Count(CompIds(result.components), input.scenario.components[i].id) = 1

\* C4: the pass counter never exceeds maxRepairPasses, at most
\* maxRepairPasses + 1 placements happen in a call, and the call returns
C4_TerminatesWithinPasses ==
    /\ [](config.repairPass <= config.maxRepairPasses
          /\ Len(attempts) <= config.maxRepairPasses + 1)
    /\ <>(pc = "done")

\* a call that returned after using every repair pass it had
C4_Exhausted ==
    /\ pc = "done"
    /\ config.maxRepairPasses >= 1
    /\ config.repairPass = config.maxRepairPasses
    /\ Len(attempts) = config.maxRepairPasses + 1

\* C5: an attempt is run again exactly when it has overlaps > 0 or
\* crossings > 2 and its pass is below maxRepairPasses, else it is returned;
\* so a returned layout carries its score and either is within the
\* threshold or was made by pass maxRepairPasses
C5_RepairExactlyWhenPoor ==
    /\ [][pc = "finalize" =>
            IF (placed.layoutScore.overlaps > 0 \/ placed.layoutScore.crossings > 2)
               /\ config.repairPass < config.maxRepairPasses
            THEN pc' = "call" /\ arg'.repairPass = config.repairPass + 1 /\ result' = result
            ELSE pc' = "done" /\ result' = placed]_vars
    /\ [](ReturnedLayout =>
            /\ result.layoutScore = ScoreLayoutResult(result.components, result.connections)
            /\ \/ result.layoutScore.overlaps = 0 /\ result.layoutScore.crossings <= 2
               \/ attempts[Len(attempts)].pass = config.maxRepairPasses)

\* a call that repaired because of crossings alone, and returned its last pass
C5_RepairedForCrossings ==
    /\ pc = "done"
    /\ Len(attempts) >= 2
    /\ attempts[1].score.overlaps = 0 /\ attempts[1].score.crossings > 2
    /\ attempts[Len(attempts)].pass = config.maxRepairPasses

\* gaps a are each strictly greater than gaps b
GapsAbove(a, b) ==
    a.columnGap > b.columnGap /\ a.rowGap > b.rowGap /\ a.componentGap > b.componentGap

\* C6: on every repair pass each gap used is strictly greater than the gap
\* the previous pass used, and hints.compact is false
C6_GapsGrow ==
    \A k \in 2..Len(attempts) :
        /\ ~attempts[k].compact
        /\ \A j \in 1..Len(attempts[k].gaps) :
              GapsAbove(attempts[k].gaps[j], attempts[k - 1].gaps[j])

\* C7: a layout returned with quality still poor has the least total score
\* of the attempts of its call
C7_ReturnsBest ==
    (ReturnedLayout /\ (result.layoutScore.overlaps > 0 \/ result.layoutScore.crossings > 2)) =>
        \A k \in 1..Len(attempts) : result.layoutScore.total <= attempts[k].score.total

\* C8: the caller's scenario and layoutConfig are at every moment what they
\* were when the call was made
C8_InputsUnchanged ==
    scenario = input.scenario /\ layoutConfig = input.layoutConfig

\* a call that returned after a repair pass, with the components in another
\* order than the caller's and with new positions
C8_SortedAndRepaired ==
    /\ pc = "done"
    /\ Len(attempts) >= 2
    /\ Len(result.components) = Len(input.scenario.components)
    /\ CompIds(result.components) # CompIds(input.scenario.components)
    /\ arg # input.layoutConfig

\* C9: with no components the call returns the scenario it was given and
\* makes no placement and no repair pass
C9_EmptyUnchanged ==
    (pc = "done" /\ Len(Components(input.scenario)) = 0) =>
        /\ result = input.scenario
        /\ attempts = <<>>
        /\ placed = NoResult
        /\ arg = input.layoutConfig

\* a call that returned for a scenario without a components key
C9_AbsentReturned ==
    /\ pc = "done"
    /\ ~input.scenario.hasComponents
    /\ result = input.scenario

\* the anchors of the components, by position in the result
Coordinates(comps) == [i \in 1..Len(comps) |-> <<comps[i].id, comps[i].x, comps[i].y>>]

\* the layout of the caller's scenario with the profile set to "pipeline"
PipelineTwin ==
    BuildResult(input.scenario, MergeConfig([input.layoutConfig EXCEPT !.profile = "pipeline"]))

\* r is within the threshold and has the coordinates of twin
SameAsTwin(r, twin) ==
    (twin.layoutScore.overlaps = 0 /\ twin.layoutScore.crossings <= 2) =>
        SeqToSet(Coordinates(r.components)) = SeqToSet(Coordinates(twin.components))

\* C10: with a profile name that is no profile, a layout returned without
\* repair has the coordinates "pipeline" gives for the same input
C10_UnknownIsPipeline ==
    (ReturnedLayout /\ input.layoutConfig.profile \notin (KnownProfiles \cup {""})
       /\ Len(attempts) = 1) =>
        SameAsTwin(result, PipelineTwin)

\* hints.primaryPath of lc without the ids that are no component of sc
KnownPath(sc, lc) ==
    SelectSeq(lc.hints.primaryPath, LAMBDA id : HasComp(Components(sc), id))

\* the layout of the caller's scenario with the ids that are no component
\* removed from hints.primaryPath
PrunedPathTwin ==
    BuildResult(input.scenario,
        MergeConfig([input.layoutConfig EXCEPT
            !.hints.primaryPath = KnownPath(input.scenario, input.layoutConfig)]))

\* C11: a layout returned without repair has the coordinates that the same
\* call gives when the ids that are no component are removed from
\* hints.primaryPath
C11_UnknownPathIdsIgnored ==
    (ReturnedLayout /\ Len(attempts) = 1) => SameAsTwin(result, PrunedPathTwin)

RECURSIVE ReachableFrom(_, _)
\* the ids that connections lead to from the ids of set
ReachableFrom(edges, set) ==
    IF {edges[i].to : i \in {j \in 1..Len(edges) : edges[j].from \in set}} \subseteq set
    THEN set
    ELSE ReachableFrom(edges,
            set \cup {edges[i].to : i \in {j \in 1..Len(edges) : edges[j].from \in set}})

\* inferPrimaryPath has returned a path it walked along connections
PathInferred ==
    /\ unit.fn = "inferPrimaryPath" /\ unit.at = "done"
    /\ GraphEdges(unit.connections) # <<>>
    /\ unit.returned # <<>>

\* C12: the derived primary path names no id twice and names every
\* component id that connections lead to from its first id
C12_PathCoversReachable ==
    PathInferred =>
        /\ \A i, j \in 1..Len(unit.returned) : unit.returned[i] = unit.returned[j] => i = j
        /\ \A id \in ReachableFrom(GraphEdges(unit.connections), {unit.returned[1]}) :
              HasComp(unit.components, id) => id \in SeqToSet(unit.returned)

\* C13: the center of a component placed by centerToAnchor is the center it
\* was placed at, for every shape kind and size specification
C13_AnchorRoundTrip ==
    (unit.fn = "centerToAnchor" /\ unit.at = "done") =>
        unit.center = [x |-> unit.centerX, y |-> unit.centerY]

\* a diamond sized by a number, whose anchor is its center, after the round trip
C13_DiamondRoundTrip ==
    /\ unit.fn = "centerToAnchor" /\ unit.at = "done"
    /\ unit.component.type = "diamond" /\ unit.component.sizeKind = "number"
    /\ unit.component.sizeA # 0
    /\ unit.component.x = unit.centerX
    /\ GetBoundsFromAnchor(unit.component).x = unit.centerX - 2 * unit.component.sizeA

\* primaryPath of the invocation that returned (layout.js lines 361-363)
PathOfCall == PathStep(Locals(input.scenario, config)).primaryPath

\* every component of the caller's scenario is on the primary path
NoBranching ==
    \A i \in 1..Len(input.scenario.components) :
        input.scenario.components[i].id \in SeqToSet(PathOfCall)

\* x of the center of the component id of a layout
CenterX(r, id) == GetComponentCenter(FindComp(r.components, id)).x

\* C14: a layout returned for profile "pipeline", left to right, with every
\* component on the primary path, has the centers' x strictly increasing
\* along the primary path
C14_PipelineMonotone ==
    (ReturnedLayout /\ config.profile = "pipeline" /\ config.direction = "LR" /\ NoBranching) =>
        \A i, j \in 1..Len(PathOfCall) :
            (/\ i < j
             /\ HasComp(result.components, PathOfCall[i])
             /\ HasComp(result.components, PathOfCall[j])) =>
                CenterX(result, PathOfCall[i]) < CenterX(result, PathOfCall[j])

\* a layout returned for profile "pipeline", left to right, without zones and
\* with every component on the primary path
PlainPipeline ==
    /\ ReturnedLayout /\ config.profile = "pipeline" /\ config.direction = "LR"
    /\ input.scenario.zones = <<>> /\ NoBranching

\* the i-th center (i from 1) of r has x = startX + maxWidth / 2 + columnGap
\* + (i - 1) * (maxWidth + 2 * columnGap), in half pixels, and the y of the
\* first center; maxWidth is the largest width of the components of r
EvenlySpaced(r, cfg, columnGap) ==
    \A i \in 1..Len(r.components) :
        /\ GetComponentCenter(r.components[i]).x =
              2 * cfg.startX + MaxWidthOf(r.components) + 2 * columnGap
              + (i - 1) * 2 * (MaxWidthOf(r.components) + 2 * columnGap)
        /\ GetComponentCenter(r.components[i]).y = GetComponentCenter(r.components[1]).y

\* the components are placed as one group: grouping is not by type, or
\* they all have one type
OneGroup ==
    \/ config.hints.grouping # "type"
    \/ \A i, j \in 1..Len(input.scenario.components) :
          TypeOf(input.scenario.components[i]) = TypeOf(input.scenario.components[j])

\* C15 as stated: the centers of a plain pipeline layout are spaced by
\* maxWidth + 2 * columnGap from startX + maxWidth / 2 + columnGap and share
\* one y
C15_PipelineCenters_AsStated ==
    PlainPipeline => EvenlySpaced(result, config, result.gaps[1].columnGap)

\* C15: the same, for components that are placed as one group
C15_PipelineCenters ==
    (PlainPipeline /\ OneGroup) => EvenlySpaced(result, config, result.gaps[1].columnGap)

\* three default 120 x 60 boxes with column gap 80: centers at x = 200, 480, 760
C15_ThreeBoxes ==
    /\ PlainPipeline /\ OneGroup
    /\ result.gaps[1].columnGap = 80
    /\ [i \in 1..Len(result.components) |-> GetComponentCenter(result.components[i]).x]
          = <<2 * 200, 2 * 480, 2 * 760>>
    /\ \A i \in 1..3 : GetComponentSize(result.components[i]) = [width |-> 120, height |-> 60]

\* the locals of the invocation that returned
LocalsOfCall == Env(input.scenario, config)

\* the id of the hub of the returned layout: pickHub with zones (layout.js
\* line 586), hubComp of the one group without (line 851)
HubOfCall ==
    IF LocalsOfCall.useZones THEN PickHub(LocalsOfCall)
    ELSE FindOrFirst(GroupLocals(LocalsOfCall, LocalsOfCall.groups[1], 0),
                     HubId(GroupLocals(LocalsOfCall, LocalsOfCall.groups[1], 0))).id

\* a layout returned for profile "hub" whose components are one hub and
\* its spokes: placed by zones, or as one group
HubLayout ==
    /\ ReturnedLayout /\ config.profile = "hub"
    /\ LocalsOfCall.useZones \/ Len(LocalsOfCall.groups) = 1
    /\ HasComp(result.components, HubOfCall)

\* the square of the distance of points p and q, and the larger of their
\* distances along x and along y
SquareDistance(p, q) == (p.x - q.x) * (p.x - q.x) + (p.y - q.y) * (p.y - q.y)
AxisDistance(p, q) == Max(Abs(p.x - q.x), Abs(p.y - q.y))

\* the distances of p and of q from c differ by no more than 2 pixels: every
\* p, q whose distances differ by at most one pixel (2 half pixels) pass,
\* since d(p)^2 - d(q)^2 = (d(p) - d(q)) * (d(p) + d(q)) and the distance is
\* less than twice the axis distance
SameDistance(p, q, c) ==
    Abs(SquareDistance(p, c) - SquareDistance(q, c))
        <= 2 * 2 * (AxisDistance(p, c) + AxisDistance(q, c))

\* C16: in a layout returned for profile "hub", with or without zones, all
\* spoke centers are at the same distance from the hub center, to the pixel
C16_HubEquidistant ==
    HubLayout =>
        \A i, j \in 1..Len(result.components) :
            (result.components[i].id # HubOfCall /\ result.components[j].id # HubOfCall) =>
                SameDistance(GetComponentCenter(result.components[i]),
                             GetComponentCenter(result.components[j]),
                             GetComponentCenter(FindComp(result.components, HubOfCall)))


\* resolveConnection has returned for a connection between two registered ids
ResolvedBetweenComponents ==
    /\ unit.fn = "resolveConnection" /\ unit.at = "done"
    /\ Registered(unit.componentMap, unit.connection.from)
    /\ Registered(unit.componentMap, unit.connection.to)

\* the midpoint of a side of box b: x and y of the corner plus the whole or
\* half of the extent
MidpointOf(b, side) ==
    CASE side = "right" -> ResolvedPoint(b.x + 2 * b.width, b.y + b.height)
      [] side = "left" -> ResolvedPoint(b.x, b.y + b.height)
      [] side = "bottom" -> ResolvedPoint(b.x + b.width, b.y + 2 * b.height)
      [] side = "top" -> ResolvedPoint(b.x + b.width, b.y)

\* the connection resolved runs from side s of the box fb to side t of tb
RunsBetween(fb, s, tb, t) ==
    unit.resolved.from = MidpointOf(fb, s) /\ unit.resolved.to = MidpointOf(tb, t)

\* the sides C17 states for the boxes fb and tb
OpposedSides(fb, tb, dx, dy) ==
    /\ Abs(dx) > Abs(dy) /\ dx > 0 => RunsBetween(fb, "right", tb, "left")
    /\ Abs(dx) > Abs(dy) /\ dx < 0 => RunsBetween(fb, "left", tb, "right")
    /\ Abs(dy) > Abs(dx) /\ dy > 0 => RunsBetween(fb, "bottom", tb, "top")
    /\ Abs(dy) > Abs(dx) /\ dy < 0 => RunsBetween(fb, "top", tb, "bottom")

\* C17: a connection between two resolvable components whose centers are
\* farther apart horizontally than vertically, with `to` on the right, runs
\* from the midpoint of the right edge of `from` to the midpoint of the left
\* edge of `to`; likewise left to right, bottom to top and top to bottom for
\* the other three directions.
C17_AnchorOpposition ==
    ResolvedBetweenComponents =>
        OpposedSides(GetComponentBounds(unit.componentMap[unit.connection.from.id]),
                     GetComponentBounds(unit.componentMap[unit.connection.to.id]),
                     GetComponentBounds(unit.componentMap[unit.connection.to.id]).centerX
                       - GetComponentBounds(unit.componentMap[unit.connection.from.id]).centerX,
                     GetComponentBounds(unit.componentMap[unit.connection.to.id]).centerY
                       - GetComponentBounds(unit.componentMap[unit.connection.from.id]).centerY)

\* the example of C17: boxes 120 wide centered at (100, 100) and (300, 100)
\* are joined from (160, 100) to (240, 100)
C17_BoxesSideBySide ==
    /\ ResolvedBetweenComponents
    /\ GetComponentBounds(unit.componentMap["a"]) =
         [x |-> 80, y |-> 140, width |-> 120, height |-> 60, centerX |-> 200, centerY |-> 200]
    /\ GetComponentBounds(unit.componentMap["b"]) =
         [x |-> 480, y |-> 140, width |-> 120, height |-> 60, centerX |-> 600, centerY |-> 200]
    /\ unit.resolved = [from |-> ResolvedPoint(320, 200), to |-> ResolvedPoint(480, 200)]

\* C18: resolveConnection returns a point for `from` and a point for `to`,
\* also when an endpoint id is missing from the lookup.
C18_BothEndsArePoints ==
    unit.fn = "resolveConnection" /\ unit.at = "done" =>
        unit.resolved.from.isPoint /\ unit.resolved.to.isPoint


\* scoreLayoutResult has returned
Scored19 == unit.fn = "scoreLayoutResult" /\ unit.at = "done"

\* the boxes a and b share a region of positive area
PositiveArea(a, b) ==
    /\ a.x < b.x + b.width /\ b.x < a.x + a.width
    /\ a.y < b.y + b.height /\ b.y < a.y + a.height

\* the side of the line through p and q that r lies on: -1, 0 or 1
SideOf(p, q, r) ==
    LET d == (q.x - p.x) * (r.y - p.y) - (q.y - p.y) * (r.x - p.x)
    IN IF d > 0 THEN 1 ELSE IF d < 0 THEN 0 - 1 ELSE 0

\* the segments s and t cross in a point inside both
CrossEachOther(s, t) ==
    /\ SideOf(s.from, s.to, t.from) * SideOf(s.from, s.to, t.to) < 0
    /\ SideOf(t.from, t.to, s.from) * SideOf(t.from, t.to, s.to) < 0

\* the pairs of components of the scored layout whose boxes share area, and
\* the pairs of its segments that cross
OverlappingPairs ==
    {p \in Pairs(Len(unit.components)) :
        PositiveArea(GetBoundsFromAnchor(unit.components[p[1]]),
                     GetBoundsFromAnchor(unit.components[p[2]]))}

CrossingPairs ==
    {p \in Pairs(Len(ConnSegments(unit.components, unit.connections))) :
        CrossEachOther(ConnSegments(unit.components, unit.connections)[p[1]],
                       ConnSegments(unit.components, unit.connections)[p[2]])}

CountedPairs ==
    {p \in CrossingPairs :
        ~SharesEndpoint(ConnSegments(unit.components, unit.connections)[p[1]],
                        ConnSegments(unit.components, unit.connections)[p[2]])}

\* C19: scoreLayoutResult returns as overlaps the number of pairs of
\* components whose bounding boxes intersect with positive area, as
\* crossings the number of counted pairs of segments that cross, and as total
\* 3 * overlaps + crossings; a layout of disjoint boxes whose edges do not
\* cross scores 0, 0 and 0.
C19_ScoreCounts ==
    Scored19 =>
        /\ unit.score.overlaps = Cardinality(OverlappingPairs)
        /\ unit.score.crossings = Cardinality(CountedPairs)
        /\ unit.score.total = 3 * unit.score.overlaps + unit.score.crossings
        /\ OverlappingPairs = {} /\ CrossingPairs = {} =>
               unit.score = [overlaps |-> 0, crossings |-> 0, total |-> 0]

\* a scored layout with touching boxes, an overlap and a crossing
C19_OverlapAndCrossing ==
    /\ Scored19
    /\ unit.score.overlaps = 1 /\ unit.score.crossings = 1 /\ unit.score.total = 4
    /\ unit.components[3].y = 40

\* getCompactedGaps has returned
Compacted == unit.fn = "getCompactedGaps" /\ unit.at = "done"

\* available = max(1, extent - 2 * padding), in half pixels, along the
\* primary (TRUE) or the secondary axis of the call
AvailableAlong(primary) ==
    LET extent == IF unit.isTB = primary THEN unit.config.viewBoxHeight
                  ELSE unit.config.viewBoxWidth
    IN IF extent - 2 * unit.config.padding >= 1 THEN 2 * (extent - 2 * unit.config.padding) ELSE 2

\* the fractions s is the least of: 1, and available / needed on each axis
\* that needs room
ScaleCandidates ==
    {[num |-> 1, den |-> 1]}
        \cup (IF unit.neededPrimary > 0
              THEN {[num |-> AvailableAlong(TRUE), den |-> unit.neededPrimary]} ELSE {})
        \cup (IF unit.neededSecondary > 0
              THEN {[num |-> AvailableAlong(FALSE), den |-> unit.neededSecondary]} ELSE {})

\* s is the least of the candidates
IsScale(s) ==
    s \in ScaleCandidates /\ \A t \in ScaleCandidates : s.num * t.den <= t.num * s.den

\* k is gap * s rounded to the nearest integer, halves upwards
IsRounded(k, gap, s) ==
    2 * k * s.den - s.den <= 2 * gap * s.num /\ 2 * gap * s.num < 2 * k * s.den + s.den

\* got is max(minimum, round(gap * s))
IsCompacted(got, gap, minimum, s) ==
    \E k \in 0..gap : IsRounded(k, gap, s) /\ got = (IF k >= minimum THEN k ELSE minimum)

\* C20: getCompactedGaps returns for columnGap, rowGap and componentGap
\* max(minimum, round(gap * s)) with s = min(1, availablePrimary /
\* neededPrimary, availableSecondary / neededSecondary) and available =
\* max(1, extent - 2 * padding) on the axis the direction selects; s is at
\* most 1 and no gap is below its minimum.
C20_CompactedGaps ==
    Compacted =>
        \E s \in ScaleCandidates :
            /\ IsScale(s) /\ s.num <= s.den
            /\ IsCompacted(unit.gaps.columnGap, unit.config.columnGap, unit.config.minColumnGap, s)
            /\ IsCompacted(unit.gaps.rowGap, unit.config.rowGap, unit.config.minRowGap, s)
            /\ IsCompacted(unit.gaps.componentGap, unit.config.componentGap,
                           unit.config.minComponentGap, s)
            /\ unit.gaps.columnGap >= unit.config.minColumnGap
            /\ unit.gaps.rowGap >= unit.config.minRowGap
            /\ unit.gaps.componentGap >= unit.config.minComponentGap

\* content that cannot fit: with half the room needed the column gap is
\* halved and the row gap, 70 when halved, is held at its minimum of 80
C20_CannotFit ==
    /\ Compacted
    /\ unit.neededPrimary = 2 * AvailableAlong(TRUE)
    /\ unit.config.columnGap = 200 /\ unit.gaps.columnGap = 100
    /\ unit.config.minRowGap = 80 /\ unit.gaps.rowGap = 80


\* the segments of the scored layout
SegmentsScored == ConnSegments(unit.components, unit.connections)

\* the components the segment s ends at
EndComponents(s) == {s.fromId, s.toId} \ {""}

\* the pairs of segments that share no endpoint component and cross in a
\* point inside both
CrossingApart ==
    {p \in CrossingPairs :
        EndComponents(SegmentsScored[p[1]]) \cap EndComponents(SegmentsScored[p[2]]) = {}}

\* the pairs of CrossingApart whose four ends are four components
CrossingOfFour ==
    {p \in CrossingApart :
        Cardinality(EndComponents(SegmentsScored[p[1]])
                      \cup EndComponents(SegmentsScored[p[2]])) = 4}

\* C21 as stated: only pairs of connections with four distinct endpoint
\* components whose segments cross strictly inside both are counted as
\* crossings.
C21_OnlyFourComponents_AsStated ==
    Scored19 => unit.score.crossings = Cardinality(CrossingOfFour)

\* C21: a pair of connections that share an endpoint component is never
\* counted as a crossing; the pairs counted are those that share no endpoint
\* component, an end being a component or an explicit point, and whose
\* segments cross strictly inside both.
C21_SharedEndpointNotCounted ==
    Scored19 => unit.score.crossings = Cardinality(CrossingApart)

\* a crossing is counted between a connection of two components and one
\* that starts at an explicit point
C21_CrossingFromPoint ==
    /\ Scored19 /\ unit.score.crossings = 1
    /\ Len(SegmentsScored) = 2 /\ SegmentsScored[1].fromId = ""
    /\ CrossingApart # {} /\ CrossingOfFour = {}


\* resolveConnection has returned for a connection from an explicit point
\* to a registered id
ResolvedFromPoint ==
    /\ unit.fn = "resolveConnection" /\ unit.at = "done"
    /\ unit.connection.from.isPoint
    /\ Registered(unit.componentMap, unit.connection.to)

\* what resolveConnection returns when from is the box fb and to the
\* registered component of the connection
ResolvedFromBox(fb) ==
    CalculateOptimalConnectionPoints(fb, GetComponentBounds(unit.componentMap[unit.connection.to.id]))

\* C22: for a connection whose from is an explicit point and whose to is a
\* component id, to resolves to the midpoint of the side of the component
\* chosen by the dominant axis, as with a box of no size at that point in
\* place of from, and from stays the given point.
C22_PointTakesPart ==
    ResolvedFromPoint =>
        /\ unit.resolved.to = ResolvedFromBox(PointBounds(unit.connection.from)).to
        /\ unit.resolved.from = unit.connection.from


\* a swimlane layout with zone grouping has been returned
SwimlaneLayout == ReturnedLayout /\ config.profile = "swimlane" /\ LocalsOfCall.useZones

\* the center of component c along the primary axis, half pixels
PrimaryCenter(c) ==
    IF LocalsOfCall.isTB THEN GetComponentCenter(c).y ELSE GetComponentCenter(c).x

\* the column of component c: its index in the flow, 0 without one
PathRank(c) == Max(0, MapIndex(LocalsOfCall.flowOrder, c.id))

\* the cell size the lanes of the returned layout share, half pixels: the
\* largest extent along the primary axis plus twice the column gap used
SharedCell ==
    2 * ((IF LocalsOfCall.isTB THEN MaxHeightOf(LocalsOfCall.components)
          ELSE MaxWidthOf(LocalsOfCall.components)) + result.gaps[1].columnGap * 2)

\* C23: in a swimlane layout with zone grouping, components of ranks i and j
\* in different lanes differ along the primary axis by exactly (j - i) times
\* the shared cell size, so that components of the same rank are aligned
\* across lanes.
C23_LanesAligned ==
    SwimlaneLayout =>
        \A c, d \in SeqToSet(result.components) :
            c.zone # d.zone =>
                PrimaryCenter(d) - PrimaryCenter(c) = (PathRank(d) - PathRank(c)) * SharedCell


\* a layout for profile "fanout" has been returned
FanoutLayout == ReturnedLayout /\ config.profile = "fanout"

\* the center of component c along the secondary axis, half pixels
SecondaryCenter(c) ==
    IF LocalsOfCall.isTB THEN GetComponentCenter(c).x ELSE GetComponentCenter(c).y

\* what tells the group of a component: its zone, its type, or nothing
GroupKey(c) ==
    IF LocalsOfCall.useZones THEN c.zone
    ELSE IF LocalsOfCall.grouping = "type" THEN TypeOf(c) ELSE ""

\* the components of the returned layout that are in the group of c
GroupOf(c) == {d \in SeqToSet(result.components) : GroupKey(d) = GroupKey(c)}

\* the targets stand in one file beyond the source s: one primary
\* coordinate, greater than that of s, and distinct secondary coordinates
OneFileBeyond(s, targets) ==
    \A t, u \in targets :
        /\ PrimaryCenter(t) > PrimaryCenter(s)
        /\ PrimaryCenter(t) = PrimaryCenter(u)
        /\ t # u => SecondaryCenter(t) # SecondaryCenter(u)

\* C24: for profile "fanout", with or without zones, every group has a
\* source at one end of the primary axis, and the other components of the
\* group in one perpendicular file at the other end: they share one
\* primary-axis center coordinate, strictly greater than the source's, and
\* their secondary-axis coordinates are pairwise distinct.
C24_FanoutFile ==
    FanoutLayout =>
        \A c \in SeqToSet(result.components) :
            \E s \in GroupOf(c) : OneFileBeyond(s, GroupOf(c) \ {s})


\* a layout placed with zone grouping has been returned
ZonedLayout == ReturnedLayout /\ LocalsOfCall.useZones

\* the box b lies inside the rectangle of the output zone z
InsideZone(b, z) ==
    /\ b.x >= z.x /\ b.x + b.width <= z.x + z.width
    /\ b.y >= z.y /\ b.y + b.height <= z.y + z.height

\* the output zones of the returned layout, those that were given a rectangle
OutputZones == {z \in SeqToSet(result.zones) : "x" \in DOMAIN z}

\* C25: with zone grouping active the bounding box of every placed
\* component lies inside the output rectangle of the zone it references.
C25_ZoneHoldsContent ==
    ZonedLayout =>
        \A c \in SeqToSet(result.components) :
            \A z \in OutputZones :
                z.id = c.zone => InsideZone(GetBoundsFromAnchor(c), z)


\* C26: for every shape kind and every size specification the bounding box
\* the connection resolver computes for a placed component equals the
\* bounding box getBoundsFromAnchor of the layout engine computes for it.
C26_SameBounds ==
    unit.fn = "getComponentBounds" /\ unit.at = "done" => unit.ofResolver = unit.ofLayout


\* a layout for profile "pipeline" has been returned
PipelineLayout == ReturnedLayout /\ config.profile = "pipeline"

\* the rows of the k-th group of the call with locals e, in placement
\* order, as records of id, group and row
RowsOfGroup(e, k) ==
    IF e.groups[k].components = <<>> THEN <<>>
    ELSE LET g == PipelineRows(GroupLocals(e, e.groups[k], 0))
         IN [i \in 1..Len(g.orderedComps) |->
                [id |-> g.orderedComps[i].id, group |-> k, row |-> g.rowById[i]]]

\* the rows of all components of the call in placement order
RowsOf(e) == Flatten([k \in 1..Len(e.groups) |-> RowsOfGroup(e, k)])

RowsOfCall == RowsOf(LocalsOfCall)

\* the connections from a primary-path node to the component id, as
\* indices of pairs, and the source of the first of them ("" when there is
\* none)
ConnectionsTo(pairs, path, id) ==
    {n \in 1..Len(pairs) : pairs[n].to = id /\ pairs[n].from \in SeqToSet(path) \ {""}}

ParentByRule(pairs, path, id) ==
    IF ConnectionsTo(pairs, path, id) = {} THEN ""
    ELSE pairs[CHOOSE n \in ConnectionsTo(pairs, path, id) :
                  \A m \in ConnectionsTo(pairs, path, id) : n <= m].from

\* rows with the parent of each component and whether it is on the path
WithParents(rows, pairs, path) ==
    [i \in 1..Len(rows) |->
        [onPath |-> rows[i].id \in SeqToSet(path),
         parent |-> ParentByRule(pairs, path, rows[i].id)] @@ rows[i]]

\* the rows branches are given one after the other
ZigZag == <<1, 0 - 1, 2, 0 - 2, 3, 0 - 3>>

\* the branches placed up to the i-th component that have its parent: in the
\* whole layout, and in its group
BranchesLike(rows, i) ==
    {j \in 1..i : ~rows[j].onPath /\ rows[j].parent = rows[i].parent}

BranchesLikeInGroup(rows, i) == {j \in BranchesLike(rows, i) : rows[j].group = rows[i].group}

\* the rows of the call with their parents
BranchRows ==
    WithParents(RowsOfCall, LocalsOfCall.connectionPairs, LocalsOfCall.primaryPath)

\* every row of rows is 0 on the path and off it the next of ZigZag, counted
\* in the whole layout
RowsAsStated(rows) ==
    \A i \in 1..Len(rows) :
        rows[i].row = IF rows[i].onPath THEN 0 ELSE ZigZag[Cardinality(BranchesLike(rows, i))]

\* the same, counted within each group
RowsByGroup(rows) ==
    \A i \in 1..Len(rows) :
        rows[i].row = IF rows[i].onPath THEN 0
                      ELSE ZigZag[Cardinality(BranchesLikeInGroup(rows, i))]

\* C27 as stated: in a pipeline layout every primary-path component is on
\* row 0 and the components off the path with the same parent, or without
\* one, take the rows +1, -1, +2, -2, ... in placement order.
C27_BranchRows_AsStated == PipelineLayout => RowsAsStated(BranchRows)

\* C27: in a pipeline layout every primary-path component is on row 0 and,
\* within each group, the components off the path with the same parent (the
\* source of the first connection from a primary-path node to them) take the
\* rows +1, -1, +2, -2, ... in placement order, and those without a parent
\* take the same sequence from one counter of their own.
C27_BranchRows == PipelineLayout => RowsByGroup(BranchRows)

\* the ids, parents and rows of rows
Branching(rows) == [i \in 1..Len(rows) |-> <<rows[i].id, rows[i].parent, rows[i].row>>]

\* a returned pipeline layout with a on row 0 and its branches b, c and d
\* on the rows 1, -1 and 2, placed below, above and further below a
C27_ThreeBranches ==
    /\ PipelineLayout /\ Len(result.components) = 4 /\ ~LocalsOfCall.isTB
    /\ Branching(BranchRows)
         = <<<<"a", "", 0>>, <<"b", "a", 1>>, <<"c", "a", 0 - 1>>, <<"d", "a", 2>>>>
    /\ SecondaryCenter(FindComp(result.components, "c")) < SecondaryCenter(FindComp(result.components, "a"))
    /\ SecondaryCenter(FindComp(result.components, "a")) < SecondaryCenter(FindComp(result.components, "b"))
    /\ SecondaryCenter(FindComp(result.components, "b")) < SecondaryCenter(FindComp(result.components, "d"))


\* C28: in the final result of a hub layout no spoke's bounding box shares
\* area with the bounding box of another spoke or of the hub of its group,
\* for every number of spokes and every component size.
C28_HubSpokesApart ==
    ReturnedLayout /\ config.profile = "hub" =>
        \A c \in SeqToSet(result.components) :
            \A d \in GroupOf(c) \ {c} :
                ~PositiveArea(GetBoundsFromAnchor(c), GetBoundsFromAnchor(d))


\* a layout placed by the pipeline, the tiered or the grid branch has been
\* returned
PlainBranchLayout == ReturnedLayout /\ config.profile \notin {"hub", "fanout", "swimlane"}

\* C29: for the profiles pipeline and tiered and for the grid fallback, the
\* final result never holds two components whose bounding boxes overlap,
\* within a group or across groups, and its score has overlaps = 0.
C29_NoOverlaps ==
    PlainBranchLayout =>
        /\ result.layoutScore.overlaps = 0
        /\ \A c, d \in SeqToSet(result.components) :
               c # d => ~PositiveArea(GetBoundsFromAnchor(c), GetBoundsFromAnchor(d))

\* a returned layout of several groups placed without gaps: no boxes
\* overlap, and two of them touch along an edge
C29_BoxesTouch ==
    /\ PlainBranchLayout /\ Len(LocalsOfCall.groups) >= 2 /\ Len(result.components) = 4
    /\ result.gaps[1].columnGap = 0
    /\ \E c, d \in SeqToSet(result.components) :
          /\ GetBoundsFromAnchor(c).x + GetBoundsFromAnchor(c).width = GetBoundsFromAnchor(d).x
          /\ GetBoundsFromAnchor(c).y = GetBoundsFromAnchor(d).y


\* generateStepsFromFlow has run on a scenario without steps
StepsGenerated ==
    unit.fn = "generateStepsFromFlow" /\ unit.at = "done" /\ unit.scenario.steps = <<>>

\* C30: generateStepsFromFlow, for a scenario without steps whose flow names
\* existing components, returns without throwing, and the steps of the
\* returned scenario are a 'Setup' step iff zones exist, then one step per
\* flow id that names an existing component, in flow order, each fading in
\* that component first, then a final 'Complete' step.
C30_StepsOfFlow ==
    StepsGenerated /\ NamedInFlow(unit.scenario, unit.scenario.flow) # <<>> =>
        LET named == NamedInFlow(unit.scenario, unit.scenario.flow)
            setup == IF Len(unit.scenario.zones) > 0 THEN 1 ELSE 0
            steps == unit.outcome.steps
        IN /\ ~unit.outcome.threw
           /\ Len(steps) = setup + Len(named) + 1
           /\ setup = 1 => steps[1].title = "Setup"
           /\ \A i \in 1..Len(named) :
                  i + setup <= Len(steps) =>
                      steps[i + setup].actions[1] = [type |-> "fadeIn", target |-> named[i]]
           /\ Len(steps) > 0 => steps[Len(steps)].title = "Complete"

=============================================================================
